---- MODULE Spec2Model ----
(***************************************************************************)
(* A model of zabbix-auto-config: the three Zabbix reconcilers             *)
(* (ZabbixHostUpdater, ZabbixHostgroupUpdater, ZabbixTemplateUpdater), the *)
(* failsafe OK file, the supervisor (main), the source collector, its      *)
(* queue, the source handler and the source merger, Host.merge, the host   *)
(* modifier chain and the two module loaders.                              *)
(***************************************************************************)
EXTENDS Integers, Sequences, FiniteSets, TLC

VARIABLES
    dryrun,                 \* ZabbixUpdater.dryrun
    failsafe,               \* ZabbixUpdater.failsafe
    db_hosts,               \* the `hosts` collection: hostname -> merged host
    zabbix_hosts,           \* Zabbix: hostname -> [status, groups, templates]
    zabbix_hostgroups,      \* Zabbix: names of the host groups that exist
    calls,                  \* mutating API calls sent by the last tick, in order
    tick,                   \* what the last reconciler tick was and what it saw
    updater_crashed,        \* the host updater died of an uncaught exception
    failsafe_ok_file,       \* config.zac.failsafe_ok_file and the file's state
    failsafe_ok_file_strict,\* config.zac.failsafe_ok_file_strict
    ok_history,             \* results of the check_failsafe_ok calls so far
    stop_event,             \* main's multiprocessing.Event
    alive,                  \* worker -> Process.is_alive()
    started,                \* workers main has started
    terminated,             \* workers main has called terminate() on
    main_pc,                \* where main is
    stop_reason,            \* why the stop flag was set: dead worker, signal, failed start
    collector_pc,           \* where the source collector's run() is
    next_update,            \* SourceCollectorProcess.next_update against the clock
    collect_failures,       \* failed collect() calls that lie inside the rolling window
    source_hosts_queue,     \* the collector's queue (maxsize 1)
    handler_pc,             \* where the source handler's run() is
    hosts_source,           \* the `hosts_source` collection: a set of rows
    collectable,            \* the host lists the source's collect() may return
    source_hosts,           \* SourceCollectorProcess.run: the batch built, not yet put
    built,                  \* batches the collector has built so far
    put_log,                \* the batches put on the queue, in order
    handled_log,            \* the batches the handler took off the queue, in order
    last_handled,           \* what the handler's last handle_source_hosts did
    merger_pc,              \* where SourceMergerProcess.merge_sources is
    source_hostnames,       \* merge_sources: snapshot hostnames not yet folded
    merger_tick,            \* what the current or last merger tick read and wrote
    input,                  \* the arguments drawn for the function under study
    output                  \* what the function under study returned

zvars == <<dryrun, failsafe, db_hosts, zabbix_hosts, zabbix_hostgroups, calls,
           tick, updater_crashed>>
fvars == <<failsafe_ok_file, failsafe_ok_file_strict, ok_history>>
svars == <<stop_event, alive, started, terminated, main_pc, stop_reason,
           collector_pc, next_update, collect_failures, source_hosts_queue,
           handler_pc>>
pvars == <<hosts_source, collectable, source_hosts, built, put_log, handled_log,
           last_handled, merger_pc, source_hostnames, merger_tick>>
ivars == <<input, output>>
vars == <<zvars, fvars, svars, pvars, ivars>>

-----------------------------------------------------------------------------
(* Bounds of the model *)

\* failsafe is drawn from 0..MaxFailsafe
MaxFailsafe == 2
\* the calls of check_failsafe_ok and the placings of an OK file that are recorded
MaxOkEvents == 4
\* the failed collect() calls that are counted
MaxFailures == 6
\* the batches a source collector builds
MaxBatches == 3

-----------------------------------------------------------------------------
(* The universe: hosts, groups, templates, properties *)

HostSeq == <<"h1", "h2">>
HostNames == {HostSeq[i] : i \in DOMAIN HostSeq}

AllSources == {"s1", "s2"}
SourceGroupName(s) == "Source-" \o s
\* name.startswith("Source-")
IsSourcePrefixed(g) == \E s \in AllSources : g = SourceGroupName(s)

GroupSeq == <<"All-hosts", "All-manual-hosts", "All-auto-disabled-hosts",
              "Source-s1", "Source-s2", "pg1", "sg1", "ug1">>
GroupNames == {GroupSeq[i] : i \in DOMAIN GroupSeq}

TemplateNames == {"T_a", "T_b", "T_u"}
\* api.template.get(): the templates that exist in Zabbix ("T_x" is mapped
\* from a property but does not exist)
zabbix_templates == TemplateNames

\* The three map files read by ZabbixUpdater.__init__
property_template_map == [p \in {"p1", "p2"} |->
                            IF p = "p1" THEN {"T_a", "T_x"} ELSE {"T_b"}]
property_hostgroup_map == [p \in {"p1"} |-> {"pg1"}]
siteadmin_hostgroup_map == [a \in {"a1"} |-> {"sg1"}]

Range(f) == {f[x] : x \in DOMAIN f}

\* One mutating API call.  params names the parameters the call carries;
\* badids are the groups whose id in the call is None or "-1"; ok is whether
\* Zabbix accepted the call.
Call(method, host, params, status, groups, badids, templates, templates_clear, ok) ==
    [method |-> method, host |-> host, params |-> params, status |-> status,
     groups |-> groups, badids |-> badids, templates |-> templates,
     templates_clear |-> templates_clear, interfaces |-> <<>>, ok |-> ok]

\* lines 332-339: the interface of a host that enable_host creates
AgentPort == 10050
default_interface(hostname) ==
    [dns |-> hostname, ip |-> "", useip |-> 0, type |-> 1, port |-> AgentPort,
     main |-> 1]

NoTick(zh, zg, okf) == [who |-> "none", aborted |-> FALSE, updating |-> {},
                        pre |-> zh, pre_groups |-> zg, pre_ok_file |-> okf]

-----------------------------------------------------------------------------
(* Reads shared by the reconcilers *)

\* a find() without the enabled filter
DbHostnames_any_row == DOMAIN db_hosts

\* mongo_collection_hosts.find({"enabled": True})
DbEnabledHostnames == {h \in DOMAIN db_hosts : db_hosts[h].enabled}

\* api.host.get(filter={"status": 0, "flags": 0})
MonitoredHosts(zh) == {h \in DOMAIN zh : zh[h].status = 0}

IsManual(zh, h) == "All-manual-hosts" \in zh[h].groups

zabbix_manual_hosts(zh) == {h \in MonitoredHosts(zh) : IsManual(zh, h)}
zabbix_managed_hosts(zh) == {h \in MonitoredHosts(zh) : ~IsManual(zh, h)}

HostsIn(S) == SelectSeq(HostSeq, LAMBDA h : h \in S)
GroupsIn(S) == SelectSeq(GroupSeq, LAMBDA g : g \in S)

\* The accumulator threaded through one tick
Acc0 == [zh |-> zabbix_hosts, zg |-> zabbix_hostgroups, calls |-> <<>>,
         crashed |-> FALSE, aborted |-> FALSE, updating |-> {}]

-----------------------------------------------------------------------------
(* ZabbixHostUpdater *)

\* disable_host: hostgroup.get(...)[0] raises IndexError when the group does
\* not exist, which nothing catches; a ZabbixAPIException is caught and logged.
disable_host(acc, h, api_fail) ==
    IF dryrun THEN acc
    ELSE IF "All-auto-disabled-hosts" \notin acc.zg
         THEN [acc EXCEPT !.crashed = TRUE]
    ELSE LET ok == h \notin api_fail
             c == Call("host.update", h, {"status", "templates", "groups"}, 1,
                       {"All-auto-disabled-hosts"}, {}, {}, {}, ok)
         IN [acc EXCEPT
               !.calls = Append(@, c),
               !.zh = IF ok
                      THEN [@ EXCEPT ![h] = [status |-> 1,
                                             groups |-> {"All-auto-disabled-hosts"},
                                             templates |-> {}]]
                      ELSE @]

\* an enable_host that never looks the hostname up and always creates
enable_host_always_create(acc, hostname, api_fail) ==
    IF dryrun THEN acc
    ELSE IF "All-hosts" \notin acc.zg
         THEN [acc EXCEPT !.crashed = TRUE]
    ELSE [acc EXCEPT
            !.calls = Append(@, [Call("host.create", hostname,
                                      {"status", "groups", "interfaces"}, 0,
                                      {"All-hosts"}, {}, {}, {},
                                      hostname \notin api_fail)
                                   EXCEPT !.interfaces = <<default_interface(hostname)>>])]

\* enable_host: api.host.get(filter={"name": hostname}) finds any Zabbix host
\* of that name, whatever its status and groups.
enable_host(acc, hostname, api_fail) ==
    IF dryrun THEN acc
    ELSE IF "All-hosts" \notin acc.zg
         THEN [acc EXCEPT !.crashed = TRUE]
    ELSE LET ok == hostname \notin api_fail
         IN IF hostname \in DOMAIN acc.zh
            THEN [acc EXCEPT
                    !.calls = Append(@, Call("host.update", hostname,
                                             {"status", "groups"}, 0,
                                             {"All-hosts"}, {}, {}, {}, ok)),
                    !.zh = IF ok
                           THEN [@ EXCEPT ![hostname].status = 0,
                                          ![hostname].groups = {"All-hosts"}]
                           ELSE @]
            ELSE [acc EXCEPT
                    !.calls = Append(@, [Call("host.create", hostname,
                                              {"status", "groups", "interfaces"}, 0,
                                              {"All-hosts"}, {}, {}, {}, ok)
                                           EXCEPT !.interfaces =
                                                    <<default_interface(hostname)>>]),
                    !.zh = IF ok
                           THEN [x \in DOMAIN @ \cup {hostname} |->
                                   IF x = hostname
                                   THEN [status |-> 0, groups |-> {"All-hosts"},
                                         templates |-> {}]
                                   ELSE @[x]]
                           ELSE @]

RECURSIVE disable_hosts(_, _, _)
disable_hosts(acc, hosts, api_fail) ==
    IF hosts = <<>> \/ acc.crashed THEN acc
    ELSE disable_hosts(disable_host(acc, Head(hosts), api_fail), Tail(hosts), api_fail)

RECURSIVE enable_hosts(_, _, _)
enable_hosts(acc, hosts, api_fail) ==
    IF hosts = <<>> \/ acc.crashed THEN acc
    ELSE enable_hosts(enable_host(acc, Head(hosts), api_fail), Tail(hosts), api_fail)

\* A failsafe that forgets the hosts to add
failsafe_exceeded_remove_only(hostnames_to_remove, hostnames_to_add) ==
    Cardinality(hostnames_to_remove) > failsafe

\* len(hostnames_to_remove) > self.failsafe or len(hostnames_to_add) > self.failsafe
failsafe_exceeded(hostnames_to_remove, hostnames_to_add) ==
    \/ Cardinality(hostnames_to_remove) > failsafe
    \/ Cardinality(hostnames_to_add) > failsafe

\* a to-remove set that counts the manual hosts in
hostnames_to_remove_manual_too(zh) == MonitoredHosts(zh) \ DbEnabledHostnames

hostnames_to_remove(zh) == zabbix_managed_hosts(zh) \ DbEnabledHostnames

\* a to-add set that counts the hostnames Zabbix monitors already
hostnames_to_add_known_too(zh) == DbEnabledHostnames

hostnames_to_add(zh) == DbEnabledHostnames \ zabbix_managed_hosts(zh)

\* ZabbixHostUpdater.work
host_updater_work(api_fail) ==
    LET to_remove == hostnames_to_remove(zabbix_hosts)
        to_add == hostnames_to_add(zabbix_hosts)
    IN IF failsafe_exceeded(to_remove, to_add)
       THEN [Acc0 EXCEPT !.aborted = TRUE]
       ELSE enable_hosts(
                disable_hosts([Acc0 EXCEPT !.updating = to_remove \cup to_add],
                              HostsIn(to_remove), api_fail),
                HostsIn(to_add), api_fail)

\* The effect of one tick on the state
Commit(who, acc) ==
    /\ zabbix_hosts' = acc.zh
    /\ zabbix_hostgroups' = acc.zg
    /\ calls' = acc.calls
    /\ tick' = [who |-> who, aborted |-> acc.aborted, updating |-> acc.updating,
                pre |-> zabbix_hosts, pre_groups |-> zabbix_hostgroups,
                pre_ok_file |-> failsafe_ok_file]
    /\ updater_crashed' = (updater_crashed \/ acc.crashed)
    /\ UNCHANGED <<dryrun, failsafe, db_hosts>>

HostUpdaterWork ==
    /\ ~updater_crashed
    /\ \E api_fail \in SUBSET HostNames :
         Commit("host", host_updater_work(api_fail))
    /\ UNCHANGED <<fvars, svars, pvars, ivars>>

-----------------------------------------------------------------------------
(* ZabbixTemplateUpdater *)

\* The calls of the template updater that the API may refuse: api_fail holds
\* the pairs of a host and the parameter of its refused host.update; a tick
\* sees no refusal, one refused call, or every call of one host refused
TemplateCalls == HostNames \X {"templates_clear", "templates"}
TemplateCallFailures ==
    {{}} \cup {{c} : c \in TemplateCalls}
         \cup {{<<h, "templates_clear">>, <<h, "templates">>} : h \in HostNames}

\* clear_templates
clear_templates(acc, templates, h, api_fail) ==
    IF dryrun THEN acc
    ELSE LET ok == <<h, "templates_clear">> \notin api_fail
         IN [acc EXCEPT
               !.calls = Append(@, Call("host.update", h, {"templates_clear"}, 0,
                                        {}, {}, {}, templates, ok)),
               !.zh = IF ok
                      THEN [@ EXCEPT ![h].templates = @ \ templates]
                      ELSE @]

\* set_templates
set_templates(acc, templates, h, api_fail) ==
    IF dryrun THEN acc
    ELSE LET ok == <<h, "templates">> \notin api_fail
         IN [acc EXCEPT
               !.calls = Append(@, Call("host.update", h, {"templates"}, 0,
                                        {}, {}, templates, {}, ok)),
               !.zh = IF ok
                      THEN [@ EXCEPT ![h].templates = templates]
                      ELSE @]

\* set(chain(property_template_map.values())) & set(zabbix_templates.keys())
managed_template_names ==
    (UNION Range(property_template_map)) \cap zabbix_templates

\* a desired set that keeps the templates Zabbix does not have
synced_template_names_unfiltered(db_host) ==
    UNION {property_template_map[p] :
             p \in db_host.properties \cap DOMAIN property_template_map}

synced_template_names(db_host) ==
    (UNION {property_template_map[p] :
              p \in db_host.properties \cap DOMAIN property_template_map})
        \cap zabbix_templates

\* A removal test that forgets the managed set
template_to_remove_unmanaged_too(template_name, synced) ==
    template_name \notin synced

\* template_name in managed_template_names and template_name not in synced_template_names
template_to_remove(template_name, synced) ==
    template_name \in managed_template_names /\ template_name \notin synced

\* the two calls the other way round: link first, clear after
update_templates_set_first(acc, host_templates_to_remove, host_templates, h, api_fail) ==
    LET acc1 == set_templates(acc, host_templates, h, api_fail)
    IN  IF host_templates_to_remove # {}
        THEN clear_templates(acc1, host_templates_to_remove, h, api_fail)
        ELSE acc1

\* lines 455-459: clear_templates when there is something to remove, then
\* set_templates
update_templates(acc, host_templates_to_remove, host_templates, h, api_fail) ==
    LET acc1 == IF host_templates_to_remove # {}
                THEN clear_templates(acc, host_templates_to_remove, h, api_fail)
                ELSE acc
    IN  set_templates(acc1, host_templates, h, api_fail)

\* The body of the loop of ZabbixTemplateUpdater.work for one Zabbix host
template_work_host(acc, h, api_fail) ==
    IF IsManual(zabbix_hosts, h) THEN acc
    ELSE IF h \notin DbEnabledHostnames THEN acc
    ELSE LET synced == synced_template_names(db_hosts[h])
             old_host_templates == zabbix_hosts[h].templates
             host_templates_to_remove ==
                 {t \in old_host_templates : template_to_remove(t, synced)}
             host_templates == (old_host_templates \ host_templates_to_remove)
                                   \cup synced
         IN IF host_templates = old_host_templates THEN acc
            ELSE update_templates([acc EXCEPT !.updating = @ \cup {h}],
                                  host_templates_to_remove, host_templates, h,
                                  api_fail)

RECURSIVE template_work_hosts(_, _, _)
template_work_hosts(acc, hosts, api_fail) ==
    IF hosts = <<>> THEN acc
    ELSE template_work_hosts(template_work_host(acc, Head(hosts), api_fail),
                             Tail(hosts), api_fail)

\* ZabbixTemplateUpdater.work
template_updater_work(api_fail) ==
    template_work_hosts(Acc0, HostsIn(MonitoredHosts(zabbix_hosts)), api_fail)

TemplateUpdaterWork ==
    /\ \E api_fail \in TemplateCallFailures :
         Commit("template", template_updater_work(api_fail))
    /\ UNCHANGED <<fvars, svars, pvars, ivars>>

-----------------------------------------------------------------------------
(* ZabbixHostgroupUpdater *)

\* set_hostgroups without its dryrun test
set_hostgroups_ignoring_dryrun(acc, hostgroups, badids, h, api_fail) ==
    LET ok == h \notin api_fail /\ badids = {}
    IN [acc EXCEPT
          !.calls = Append(@, Call("host.update", h, {"groups"}, 0,
                                   hostgroups, badids, {}, {}, ok)),
          !.zh = IF ok THEN [@ EXCEPT ![h].groups = hostgroups] ELSE @]

\* set_hostgroups: a group list holding the id None (a failed create) is
\* rejected by Zabbix.
set_hostgroups(acc, hostgroups, badids, h, api_fail) ==
    IF dryrun THEN acc
    ELSE LET ok == h \notin api_fail /\ badids = {}
         IN [acc EXCEPT
               !.calls = Append(@, Call("host.update", h, {"groups"}, 0,
                                        hostgroups, badids, {}, {}, ok)),
               !.zh = IF ok
                      THEN [@ EXCEPT ![h].groups = hostgroups]
                      ELSE @]

\* create_hostgroup: returns "-1" under dryrun, the new id on success and
\* None when the API raises (as it does for a name that already exists).
\* The result is the accumulator with .badid telling whether the id is usable.
create_hostgroup(acc, hostgroup_name, create_fail) ==
    IF dryrun THEN [acc |-> acc, badid |-> TRUE]
    ELSE LET ok == hostgroup_name \notin create_fail /\ hostgroup_name \notin acc.zg
         IN [acc |-> [acc EXCEPT
                        !.calls = Append(@, Call("hostgroup.create", hostgroup_name,
                                                 {"name"}, 0, {hostgroup_name}, {},
                                                 {}, {}, ok)),
                        !.zg = IF ok THEN @ \cup {hostgroup_name} ELSE @],
             badid |-> ~ok]

\* lines 484-491: the result of set.union() on line 485 is discarded, so the
\* siteadmin groups are not in the set.
managed_hostgroup_names ==
    (UNION Range(property_hostgroup_map))
        \cup {g \in zabbix_hostgroups : IsSourcePrefixed(g)}
        \cup {"All-hosts"}

synced_hostgroup_names(db_host) ==
    {"All-hosts"}
        \cup (UNION {property_hostgroup_map[p] :
                       p \in db_host.properties \cap DOMAIN property_hostgroup_map})
        \cup (UNION {siteadmin_hostgroup_map[a] :
                       a \in db_host.siteadmins \cap DOMAIN siteadmin_hostgroup_map})
        \cup {SourceGroupName(s) : s \in db_host.sources}

\* A removal test that forgets the managed set
hostgroup_to_remove_unmanaged_too(hostgroup_name, synced) ==
    hostgroup_name \notin synced

\* hostgroup_name in managed_hostgroup_names and hostgroup_name not in synced_hostgroup_names
hostgroup_to_remove(hostgroup_name, synced) ==
    hostgroup_name \in managed_hostgroup_names /\ hostgroup_name \notin synced

\* lines 528-535: the groups to add; one that is not in the zabbix_hostgroups
\* dict of the tick's start is created.  st = [acc, badids]
RECURSIVE add_hostgroups(_, _, _)
add_hostgroups(st, names, create_fail) ==
    IF names = <<>> THEN st
    ELSE LET g == Head(names)
             r == IF g \in zabbix_hostgroups
                  THEN [acc |-> st.acc, badid |-> FALSE]
                  ELSE create_hostgroup(st.acc, g, create_fail)
         IN add_hostgroups([acc |-> r.acc,
                            badids |-> IF r.badid THEN st.badids \cup {g}
                                       ELSE st.badids],
                           Tail(names), create_fail)

\* The body of the loop of ZabbixHostgroupUpdater.work for one Zabbix host
hostgroup_work_host(acc, h, api_fail, create_fail) ==
    IF IsManual(zabbix_hosts, h) THEN acc
    ELSE IF h \notin DbEnabledHostnames THEN acc
    ELSE LET synced == synced_hostgroup_names(db_hosts[h])
             old_host_hostgroups == zabbix_hosts[h].groups
             kept == {g \in old_host_hostgroups : ~hostgroup_to_remove(g, synced)}
             st == add_hostgroups([acc |-> acc, badids |-> {}],
                                  GroupsIn(synced \ kept), create_fail)
             host_hostgroups == kept \cup synced
         IN IF host_hostgroups = old_host_hostgroups THEN st.acc
            ELSE set_hostgroups([st.acc EXCEPT !.updating = @ \cup {h}],
                                host_hostgroups, st.badids, h, api_fail)

RECURSIVE hostgroup_work_hosts(_, _, _, _)
hostgroup_work_hosts(acc, hosts, api_fail, create_fail) ==
    IF hosts = <<>> THEN acc
    ELSE hostgroup_work_hosts(
             hostgroup_work_host(acc, Head(hosts), api_fail, create_fail),
             Tail(hosts), api_fail, create_fail)

\* ZabbixHostgroupUpdater.work
hostgroup_updater_work(api_fail, create_fail) ==
    hostgroup_work_hosts(Acc0, HostsIn(MonitoredHosts(zabbix_hosts)),
                         api_fail, create_fail)

HostgroupUpdaterWork ==
    /\ \E api_fail \in SUBSET HostNames, create_fail \in {{}, GroupNames} :
         Commit("hostgroup", hostgroup_updater_work(api_fail, create_fail))
    /\ UNCHANGED <<fvars, svars, pvars, ivars>>

-----------------------------------------------------------------------------
(* The states the reconcilers start from *)

DbHost(enabled, properties, siteadmins) ==
    [enabled |-> enabled, properties |-> properties, siteadmins |-> siteadmins,
     sources |-> {"s1"}]
ZHost(status, groups, templates) ==
    [status |-> status, groups |-> groups, templates |-> templates]

\* A choice per host is the set of its rows: empty (absent) or one row.
Absent == {}
Present(choice) ==
    [h \in {x \in DOMAIN choice : choice[x] # {}} |-> CHOOSE r \in choice[h] : TRUE]

DbPlainShapes == {Absent, {DbHost(FALSE, {}, {})}, {DbHost(TRUE, {}, {})}}
DbGroupShapes == {{DbHost(FALSE, {}, {})}} \cup
                 {{DbHost(TRUE, ps, sa)} : ps \in SUBSET {"p1"}, sa \in SUBSET {"a1"}}
DbTemplateShapes == {{DbHost(FALSE, {}, {})}} \cup
                    {{DbHost(TRUE, ps, {})} : ps \in SUBSET {"p1", "p2"}}
DbPeerShapes == {Absent, {DbHost(TRUE, {"p1"}, {"a1"})}}

ZPlainShapes == {Absent,
                 {ZHost(1, {"All-auto-disabled-hosts"}, {})},
                 {ZHost(1, {"All-manual-hosts"}, {})},
                 {ZHost(0, {"All-hosts"}, {"T_u"})},
                 {ZHost(0, {"All-manual-hosts"}, {"T_u"})}}
ZGroupShapes == {{ZHost(0, {"All-hosts"} \cup gs, {})} :
                   gs \in SUBSET {"All-manual-hosts", "Source-s2",
                                  "pg1", "sg1", "ug1"}}
ZTemplateShapes == {{ZHost(0, gs, ts)} :
                      gs \in {{"All-hosts"}, {"All-hosts", "All-manual-hosts"}},
                      ts \in SUBSET TemplateNames}
ZPeerShapes == {Absent, {ZHost(0, {"All-hosts"}, {})}, {ZHost(0, {"ug1"}, {"T_a"})}}

UsedGroups(zh) == UNION {zh[h].groups : h \in DOMAIN zh}
\* The groups that exist besides those the hosts are in: every group of the
\* maps, only the two the host updater needs, or none
AllGroupsExist == {GroupNames}
BaseGroupsExist == {{"All-hosts", "All-auto-disabled-hosts"}}
NoOtherGroupExists == {{}}

InitZabbixParked ==
    /\ dryrun = FALSE
    /\ failsafe = MaxFailsafe
    /\ db_hosts = Present([h \in HostNames |-> Absent])
    /\ zabbix_hosts = Present([h \in HostNames |-> Absent])
    /\ zabbix_hostgroups = GroupNames
    /\ calls = <<>>
    /\ tick = NoTick(zabbix_hosts, zabbix_hostgroups, failsafe_ok_file)
    /\ updater_crashed = FALSE

InitFailsafeOkUnconfigured ==
    /\ failsafe_ok_file = "unconfigured"
    /\ failsafe_ok_file_strict = FALSE
    /\ ok_history = <<>>

InitZabbix(dbchoices, zchoices, failsafes, extras) ==
    /\ dryrun \in BOOLEAN
    /\ failsafe \in failsafes
    /\ \E d \in dbchoices : db_hosts = Present(d)
    /\ \E z \in zchoices, extra \in extras :
         /\ zabbix_hosts = Present(z)
         /\ zabbix_hostgroups = UsedGroups(Present(z)) \cup extra
         /\ tick = NoTick(Present(z), UsedGroups(Present(z)) \cup extra,
                         failsafe_ok_file)
    /\ calls = <<>>
    /\ updater_crashed = FALSE

PerHost(first, second) ==
    {[h \in HostNames |-> IF h = HostSeq[1] THEN a ELSE b] : a \in first, b \in second}

InitHostFamily ==
    InitZabbix(PerHost(DbPlainShapes, DbPlainShapes),
               PerHost(ZPlainShapes, ZPlainShapes), 0..MaxFailsafe,
               AllGroupsExist \cup NoOtherGroupExists)
InitGroupFamily ==
    InitZabbix(PerHost(DbGroupShapes, DbPeerShapes),
               PerHost(ZGroupShapes, ZPeerShapes), {MaxFailsafe},
               AllGroupsExist \cup BaseGroupsExist)
InitTemplateFamily ==
    InitZabbix(PerHost(DbTemplateShapes, DbPeerShapes),
               PerHost(ZTemplateShapes, ZPeerShapes), {MaxFailsafe},
               AllGroupsExist)

-----------------------------------------------------------------------------
(* The failsafe OK file: utils.check_failsafe_ok, whose source is not among *)
(* the files; modelled from its tests and from the host reconciler's step 4 *)

\* The states of config.zac.failsafe_ok_file: not configured (None), or a
\* path whose file is absent, present, or present and impossible to delete
FailsafeOkFileStates == {"unconfigured", "absent", "present", "undeletable"}

\* check_failsafe_ok that never proceeds when it cannot delete the file
check_failsafe_ok_always_strict(file, strict) ==
    CASE file = "present" -> [result |-> TRUE, file |-> "absent"]
      [] OTHER -> [result |-> FALSE, file |-> file]

\* check_failsafe_ok that approves the file and leaves it in place
check_failsafe_ok_keeping_file(file, strict) ==
    CASE file = "present" -> [result |-> TRUE, file |-> "present"]
      [] file = "undeletable" -> [result |-> ~strict, file |-> file]
      [] OTHER -> [result |-> FALSE, file |-> file]

\* check_failsafe_ok(config.zac): the value returned and the file afterwards
check_failsafe_ok(file, strict) ==
    CASE file = "unconfigured" -> [result |-> FALSE, file |-> file]
      [] file = "absent" -> [result |-> FALSE, file |-> file]
      [] file = "present" -> [result |-> TRUE, file |-> "absent"]
      [] file = "undeletable" -> [result |-> ~strict, file |-> file]

OkEvent(ev, before, result, after) ==
    [ev |-> ev, file |-> before, result |-> result, after |-> after]

\* One call of check_failsafe_ok
CheckFailsafeOk ==
    /\ Len(ok_history) < MaxOkEvents
    /\ LET r == check_failsafe_ok(failsafe_ok_file, failsafe_ok_file_strict)
       IN /\ failsafe_ok_file' = r.file
          /\ ok_history' = Append(ok_history,
                                  OkEvent("check", failsafe_ok_file, r.result, r.file))
    /\ UNCHANGED <<failsafe_ok_file_strict, zvars, svars, pvars, ivars>>

\* The operator places an OK file at the configured path (where it may or may
\* not be deletable by the daemon)
PlaceOkFile ==
    /\ Len(ok_history) < MaxOkEvents
    /\ failsafe_ok_file = "absent"
    /\ \E placed \in {"present", "undeletable"} :
         /\ failsafe_ok_file' = placed
         /\ ok_history' = Append(ok_history,
                                 OkEvent("place", failsafe_ok_file, FALSE, placed))
    /\ UNCHANGED <<failsafe_ok_file_strict, zvars, svars, pvars, ivars>>

InitFailsafeOkAny ==
    /\ failsafe_ok_file \in FailsafeOkFileStates
    /\ failsafe_ok_file_strict \in BOOLEAN
    /\ ok_history = <<>>

-----------------------------------------------------------------------------
(* The supervisor and its workers, before main has started anything *)

\* main's `processes` list, in its order (lines 125-159)
ProcessSeq == <<"source-handler", "source-merger", "zabbix-host-updater",
                "zabbix-hostgroup-updater", "zabbix-template-updater", "src1">>
Processes == {ProcessSeq[i] : i \in DOMAIN ProcessSeq}

Collector == "src1"
Handler == "source-handler"
Merger == "source-merger"

-----------------------------------------------------------------------------
(* hosts_source, the batches and the queue *)

\* a host as a source's collect() returns it; importance is the set holding
\* the value of the "importance" key, empty when the key is absent
CollectedHost(hostname, enabled, properties, siteadmins, importance) ==
    [hostname |-> hostname, enabled |-> enabled, properties |-> properties,
     siteadmins |-> siteadmins, importance |-> importance]

\* line 50: host["source"] = self.name
with_source(host, source) ==
    [hostname |-> host.hostname, source |-> source, enabled |-> host.enabled,
     properties |-> host.properties, siteadmins |-> host.siteadmins,
     importance |-> host.importance]

\* lines 59-62: source_hosts; n numbers the batches of the source
Batch(source, hosts, n) == [source |-> source, hosts |-> hosts, n |-> n]

\* the variable source_hosts holds no batch, or the one batch being put
NoBatch == {}

\* multiprocessing.Queue(maxsize=1).full()
queue_always_room(q) == FALSE
queue_full(q) == Len(q) >= 1

\* get_nowait(): what is left on the queue after the head was taken
queue_after_get_keeping_head(q) == q
queue_after_get(q) == Tail(q)

\* The operations of one handle_source_hosts call that reached the database:
\* the hostnames deleted (lines 118-120) and the hostnames replaced or
\* inserted (lines 122-139).  The writes start after the last delete.
\* a handler that deletes nothing
removed_hostnames_none(hs, batch) == {}

removed_hostnames(hs, batch) ==
    {r.hostname : r \in {x \in hs : x.source = batch.source}}
        \ {h.hostname : h \in batch.hosts}

AllDone(hs, batch) ==
    [deleted |-> removed_hostnames(hs, batch),
     written |-> {h.hostname : h \in batch.hosts}]

DoneChoices(hs, batch) ==
    {[deleted |-> d, written |-> {}] : d \in SUBSET removed_hostnames(hs, batch)}
    \cup {[deleted |-> removed_hostnames(hs, batch), written |-> w] :
            w \in SUBSET {h.hostname : h \in batch.hosts}}

\* lines 107-139: hosts_source after the operations in done were applied
handle_source_hosts(hs, batch, done) ==
    LET kept == {r \in hs : ~(/\ r.source = batch.source
                              /\ r.hostname \in done.deleted \cup done.written)}
    IN  kept \cup {h \in batch.hosts : h.hostname \in done.written}

NoHandled == [n |-> 0, before |-> {}, failed |-> FALSE]

\* lines 193-203: merged_host; the row is keyed by its hostname
Min(S) == CHOOSE x \in S : \A y \in S : x <= y
DefaultImportance == 6
importance_of(host) == IF host.importance = {} THEN DefaultImportance
                       ELSE Min(host.importance)

\* a merge_hosts that wants every row enabled and keeps no source of a
\* disabled row
merge_hosts_all_enabled(hs, hostname) ==
    LET hosts == {r \in hs : r.hostname = hostname}
    IN  IF hosts = {} THEN {}
        ELSE {[enabled |-> \A host \in hosts : host.enabled,
               importance |-> Min({importance_of(host) : host \in hosts}),
               properties |-> UNION {host.properties : host \in hosts},
               siteadmins |-> UNION {host.siteadmins : host \in hosts},
               sources |-> {host.source : host \in {x \in hosts : x.enabled}}]}

\* lines 186-204: None (the empty set) when no row names the hostname
merge_hosts(hs, hostname) ==
    LET hosts == {r \in hs : r.hostname = hostname}
    IN  IF hosts = {} THEN {}
        ELSE {[enabled |-> \E host \in hosts : host.enabled,
               importance |-> Min({importance_of(host) : host \in hosts}),
               properties |-> UNION {host.properties : host \in hosts},
               siteadmins |-> UNION {host.siteadmins : host \in hosts},
               sources |-> {host.source : host \in hosts}]}

\* missed: the hostnames the tick before folded without finding a row
NoMergerTick == [n |-> 0, snapshot |-> {}, missed |-> {}, read |-> {}, done |-> FALSE]

\* what collect() returns in the supervisor's runs: always the same one host
OneHostList == {{CollectedHost("h1", TRUE, {}, {}, {})}}

\* An element of the list collect() returned: a dict that utils.validate_host
\* accepts ("host"), a dict it rejects with an AssertionError ("invalid"), or
\* a value that is no dict ("not a dict"; host then stands for that value).
\* utils.validate_host is not among the sources: what it accepts is a
\* property of the element.
Item(kind, host) == [kind |-> kind, host |-> host]
Dicts(hosts) == {Item("host", host) : host \in hosts}

\* what the last collect() that returned a list returned, n counting from 1
Collected(n, items) == [n |-> n, items |-> items]
NotCollected == Collected(0, {})

\* lines 47-57: valid_hosts.  host["source"] = self.name raises TypeError for
\* an element that is no dict, which `except AssertionError` lets through
valid_hosts(items, source) ==
    [raised |-> \E item \in items : item.kind = "not a dict",
     hosts |-> {with_source(item.host, source) :
                  item \in {x \in items : x.kind = "host"}}]

InitPipelineParked ==
    /\ hosts_source = {}
    /\ collectable = {Dicts(hosts) : hosts \in OneHostList}
    /\ source_hosts = NoBatch
    /\ built = 0
    /\ put_log = <<>>
    /\ handled_log = <<>>
    /\ last_handled = NoHandled
    /\ merger_pc = "idle"
    /\ source_hostnames = {}
    /\ merger_tick = NoMergerTick

InitPureParked ==
    /\ input = <<>>
    /\ output = {}

InitSupervisorParked ==
    /\ stop_event = FALSE
    /\ alive = [p \in Processes |-> FALSE]
    /\ started = {}
    /\ terminated = {}
    /\ main_pc = "start"
    /\ stop_reason = {}
    /\ collector_pc = "loop"
    /\ next_update = "none"
    /\ collect_failures = 0
    /\ source_hosts_queue = <<>>
    /\ handler_pc = "loop"

-----------------------------------------------------------------------------
(* SourceCollectorProcess.run and SourceHandlerProcess.run *)

\* the tolerance of the rolling error counter in the failing-collector scenario
Tolerance == 5

\* while not self.stop_event.is_set(): the loop ends, run() returns and the
\* process exits
CollectorStop ==
    /\ alive[Collector] /\ collector_pc = "loop"
    /\ stop_event
    /\ collector_pc' = "exited"
    /\ alive' = [alive EXCEPT ![Collector] = FALSE]
    /\ UNCHANGED <<stop_event, started, terminated, main_pc, stop_reason,
                   next_update, collect_failures, source_hosts_queue, handler_pc,
                   zvars, fvars, pvars, ivars>>

\* lines 31-34: next_update lies ahead; sleep one second, after which the
\* deadline may have been reached
CollectorSleep ==
    /\ alive[Collector] /\ collector_pc = "loop"
    /\ ~stop_event
    /\ next_update = "future"
    /\ next_update' \in {"future", "due"}
    /\ UNCHANGED <<stop_event, alive, started, terminated, main_pc, stop_reason,
                   collector_pc, collect_failures, source_hosts_queue, handler_pc,
                   zvars, fvars, pvars, ivars>>

\* a collector that enqueues an empty batch when collect() failed
CollectorCollectFails_empty_batch ==
    /\ alive[Collector] /\ collector_pc = "loop"
    /\ ~stop_event
    /\ next_update # "future"
    /\ collect_failures < MaxFailures
    /\ ~queue_full(source_hosts_queue)
    /\ next_update' = "future"
    /\ collect_failures' = collect_failures + 1
    /\ source_hosts_queue' = Append(source_hosts_queue, Batch(Collector, {}, built))
    /\ UNCHANGED <<stop_event, alive, started, terminated, main_pc, stop_reason,
                   collector_pc, handler_pc, zvars, fvars, pvars, ivars>>

\* lines 36-45: collect() raises, or returns something that is not a list:
\* a warning is logged and the loop continues
CollectorCollectFails ==
    /\ alive[Collector] /\ collector_pc = "loop"
    /\ ~stop_event
    /\ next_update # "future"
    /\ collect_failures < MaxFailures
    /\ next_update' = "future"
    /\ collect_failures' = collect_failures + 1
    /\ UNCHANGED <<stop_event, alive, started, terminated, main_pc, stop_reason,
                   collector_pc, source_hosts_queue, handler_pc, zvars, fvars, pvars, ivars>>

\* lines 36-62: collect() returns a list; the batch is built from the
\* elements that pass validation, unless the loop over the elements raises,
\* which ends the process
CollectorCollects ==
    /\ alive[Collector] /\ collector_pc = "loop"
    /\ ~stop_event
    /\ next_update # "future"
    /\ built < MaxBatches
    /\ next_update' = "future"
    /\ \E items \in collectable :
         LET valid == valid_hosts(items, Collector) IN
         /\ input' = Collected(built + 1, items)
         /\ IF valid.raised
            THEN /\ collector_pc' = "exited"
                 /\ alive' = [alive EXCEPT ![Collector] = FALSE]
                 /\ UNCHANGED <<source_hosts, built>>
            ELSE /\ collector_pc' = "put"
                 /\ source_hosts' = {Batch(Collector, valid.hosts, built + 1)}
                 /\ built' = built + 1
                 /\ UNCHANGED alive
    /\ UNCHANGED <<stop_event, started, terminated, main_pc, stop_reason,
                   collect_failures, source_hosts_queue, handler_pc, hosts_source,
                   collectable, put_log, handled_log, last_handled, merger_pc,
                   source_hostnames, merger_tick, zvars, fvars, output>>

\* line 64: source_hosts_queue.put(source_hosts) blocks while the queue
\* (maxsize 1) is full
CollectorPut ==
    /\ alive[Collector] /\ collector_pc = "put"
    /\ ~queue_full(source_hosts_queue)
    /\ \E batch \in source_hosts :
         /\ source_hosts_queue' = Append(source_hosts_queue, batch)
         /\ put_log' = Append(put_log, batch)
    /\ source_hosts' = NoBatch
    /\ collector_pc' = "loop"
    /\ UNCHANGED <<stop_event, alive, started, terminated, main_pc, stop_reason,
                   next_update, collect_failures, handler_pc, hosts_source,
                   collectable, built, handled_log, last_handled, merger_pc,
                   source_hostnames, merger_tick, zvars, fvars, ivars>>

\* Time passes: the oldest failure leaves the rolling window
FailureExpires ==
    /\ collect_failures > 0
    /\ collect_failures' = collect_failures - 1
    /\ UNCHANGED <<stop_event, alive, started, terminated, main_pc, stop_reason,
                   collector_pc, next_update, source_hosts_queue, handler_pc,
                   zvars, fvars, pvars, ivars>>

\* lines 93-102: one pass of the handler's loop: get_nowait() on the queue,
\* handle the batch if there was one, sleep.  A database operation of
\* handle_source_hosts may fail, which ends the call where it stands; the
\* decorator utils.handle_database_error is not among the sources, so after a
\* failure the handler may go on or exit.
HandlerPass ==
    /\ alive[Handler] /\ handler_pc = "loop"
    /\ ~stop_event
    /\ IF source_hosts_queue = <<>>
       THEN UNCHANGED <<source_hosts_queue, hosts_source, handled_log,
                        last_handled, handler_pc, alive>>
       ELSE LET batch == Head(source_hosts_queue) IN
            /\ source_hosts_queue' = queue_after_get(source_hosts_queue)
            /\ handled_log' = Append(handled_log, batch)
            /\ \E done \in DoneChoices(hosts_source, batch) :
                 /\ hosts_source' = handle_source_hosts(hosts_source, batch, done)
                 /\ last_handled' = [n |-> batch.n, before |-> hosts_source,
                                     failed |-> done # AllDone(hosts_source, batch)]
                 /\ \/ UNCHANGED <<handler_pc, alive>>
                    \/ /\ done # AllDone(hosts_source, batch)
                       /\ handler_pc' = "exited"
                       /\ alive' = [alive EXCEPT ![Handler] = FALSE]
    /\ UNCHANGED <<stop_event, started, terminated, main_pc, stop_reason,
                   collector_pc, next_update, collect_failures, collectable,
                   source_hosts, built, put_log, merger_pc, source_hostnames,
                   merger_tick, zvars, fvars, ivars>>

\* line 93 and 104: the handler's loop ends on the stop flag
HandlerStop ==
    /\ alive[Handler] /\ handler_pc = "loop"
    /\ stop_event
    /\ handler_pc' = "exited"
    /\ alive' = [alive EXCEPT ![Handler] = FALSE]
    /\ UNCHANGED <<stop_event, started, terminated, main_pc, stop_reason,
                   collector_pc, next_update, collect_failures, source_hosts_queue,
                   zvars, fvars, pvars, ivars>>

\* A worker process ends: killed by the SIGTERM of terminate(), or on its own
\* (an uncaught exception, sys.exit(1) on a lost database)
WorkerDies ==
    /\ \E p \in Processes :
         /\ alive[p]
         /\ alive' = [alive EXCEPT ![p] = FALSE]
    /\ UNCHANGED <<stop_event, started, terminated, main_pc, stop_reason,
                   collector_pc, next_update, collect_failures, source_hosts_queue,
                   handler_pc, zvars, fvars, pvars, ivars>>

-----------------------------------------------------------------------------
(* main: the supervisor *)

NotStarted == SelectSeq(ProcessSeq, LAMBDA p : p \notin started)
NotTerminated == SelectSeq(ProcessSeq, LAMBDA p : p \notin terminated)

\* lines 162-168: start the next process; a start that raises sets the stop
\* flag and ends the loop
MainStart ==
    /\ main_pc = "start"
    /\ IF NotStarted = <<>>
       THEN /\ main_pc' = "monitor"
            /\ UNCHANGED <<stop_event, alive, started, stop_reason>>
       ELSE \/ /\ started' = started \cup {Head(NotStarted)}
               /\ alive' = [alive EXCEPT ![Head(NotStarted)] = TRUE]
               /\ UNCHANGED <<stop_event, main_pc, stop_reason>>
            \/ /\ stop_event' = TRUE
               /\ stop_reason' = stop_reason \cup {"start_failed"}
               /\ main_pc' = "monitor"
               /\ UNCHANGED <<alive, started>>
    /\ UNCHANGED <<terminated, collector_pc, next_update, collect_failures,
                   source_hosts_queue, handler_pc, zvars, fvars, pvars, ivars>>

\* line 174: while not stop_event.is_set()
MainMonitorTest ==
    /\ main_pc = "monitor"
    /\ main_pc' = IF stop_event THEN "terminate" ELSE "check"
    /\ UNCHANGED <<stop_event, alive, started, terminated, stop_reason,
                   collector_pc, next_update, collect_failures, source_hosts_queue,
                   handler_pc, zvars, fvars, pvars, ivars>>

\* lines 188-190
dead_process_names == {p \in Processes : ~alive[p]}

\* lines 188-197: a dead worker sets the stop flag; sleep
MainMonitorCheck ==
    /\ main_pc = "check"
    /\ IF dead_process_names # {}
       THEN /\ stop_event' = TRUE
            /\ stop_reason' = stop_reason \cup {"dead"}
       ELSE UNCHANGED <<stop_event, stop_reason>>
    /\ main_pc' = "monitor"
    /\ UNCHANGED <<alive, started, terminated, collector_pc, next_update,
                   collect_failures, source_hosts_queue, handler_pc, zvars, fvars, pvars, ivars>>

\* lines 204-206: terminate() the next process; on a process that was never
\* started it raises AttributeError, which ends main
MainTerminate ==
    /\ main_pc = "terminate"
    /\ IF NotTerminated = <<>>
       THEN /\ main_pc' = "wait"
            /\ UNCHANGED terminated
       ELSE IF Head(NotTerminated) \in started
            THEN /\ terminated' = terminated \cup {Head(NotTerminated)}
                 /\ UNCHANGED main_pc
            ELSE /\ main_pc' = "crashed"
                 /\ UNCHANGED terminated
    /\ UNCHANGED <<stop_event, alive, started, stop_reason, collector_pc,
                   next_update, collect_failures, source_hosts_queue, handler_pc,
                   zvars, fvars, pvars, ivars>>

\* a get_alive that looks at the first process only
get_alive_first_only == {p \in {ProcessSeq[1]} : alive[p]}

\* lines 208-209
get_alive == {p \in Processes : alive[p]}

\* lines 211-223: while alive := get_alive(): join each for 10 s, terminate()
\* again the ones that hang, sleep; the loop ends when none is alive
MainWait ==
    /\ main_pc = "wait"
    /\ IF get_alive = {}
       THEN /\ main_pc' = "exit"
            /\ UNCHANGED terminated
       ELSE /\ terminated' = terminated \cup get_alive
            /\ UNCHANGED main_pc
    /\ UNCHANGED <<stop_event, alive, started, stop_reason, collector_pc,
                   next_update, collect_failures, source_hosts_queue, handler_pc,
                   zvars, fvars, pvars, ivars>>

\* ProcessTerminator._handler (SignalHandler in main): SIGINT or SIGTERM
\* arrives while the handler is installed
SignalReceived ==
    /\ main_pc \in {"monitor", "check", "terminate", "wait"}
    /\ "signal" \notin stop_reason
    /\ stop_event' = TRUE
    /\ stop_reason' = stop_reason \cup {"signal"}
    /\ UNCHANGED <<alive, started, terminated, main_pc, collector_pc, next_update,
                   collect_failures, source_hosts_queue, handler_pc, zvars, fvars, pvars, ivars>>

-----------------------------------------------------------------------------
(* SourceMergerProcess.merge_sources, one database read or write at a time *)

\* line 214: removed_hostnames
stale_hostnames(hosts, snapshot) == DOMAIN hosts \ snapshot

\* lines 211-217: the snapshot of the hostnames of hosts_source is taken and
\* the rows of hosts whose hostname is not in it are deleted
MergerSnapshot ==
    /\ alive[Merger] /\ merger_pc = "idle"
    /\ ~stop_event
    /\ LET snapshot == {r.hostname : r \in hosts_source} IN
       /\ source_hostnames' = snapshot
       /\ db_hosts' = [h \in DOMAIN db_hosts \ stale_hostnames(db_hosts, snapshot)
                         |-> db_hosts[h]]
       /\ merger_tick' = [n |-> 1 - merger_tick.n, snapshot |-> snapshot,
                          missed |-> {e.hostname :
                                        e \in {x \in merger_tick.read : x.rows = {}}},
                          read |-> {}, done |-> FALSE]
    /\ merger_pc' = "fold"
    /\ UNCHANGED <<dryrun, failsafe, zabbix_hosts, zabbix_hostgroups, calls, tick,
                   updater_crashed, hosts_source, collectable, source_hosts, built,
                   put_log, handled_log, last_handled, fvars, svars, ivars>>

\* lines 219-239: the next hostname of the snapshot: merge_hosts reads its
\* rows as they are now; no row, no write; else the merged row is inserted
\* or replaces the one in hosts
MergerFold ==
    /\ alive[Merger] /\ merger_pc = "fold"
    /\ \E hostname \in source_hostnames :
         LET host == merge_hosts(hosts_source, hostname) IN
         /\ source_hostnames' = source_hostnames \ {hostname}
         /\ db_hosts' = IF host = {} THEN db_hosts
                        ELSE [h \in DOMAIN db_hosts \cup {hostname} |->
                                IF h = hostname THEN CHOOSE m \in host : TRUE
                                ELSE db_hosts[h]]
         /\ merger_tick' = [merger_tick EXCEPT !.read = @ \cup
                              {[hostname |-> hostname,
                                rows |-> {r \in hosts_source : r.hostname = hostname}]}]
    /\ UNCHANGED <<dryrun, failsafe, zabbix_hosts, zabbix_hostgroups, calls, tick,
                   updater_crashed, hosts_source, collectable, source_hosts, built,
                   put_log, handled_log, last_handled, merger_pc, fvars, svars, ivars>>

\* line 241: every hostname of the snapshot was folded; the tick is complete
MergerDone ==
    /\ alive[Merger] /\ merger_pc = "fold"
    /\ source_hostnames = {}
    /\ merger_pc' = "idle"
    /\ merger_tick' = [merger_tick EXCEPT !.done = TRUE]
    /\ UNCHANGED <<hosts_source, collectable, source_hosts, built, put_log,
                   handled_log, last_handled, source_hostnames, zvars, fvars, svars,
                   ivars>>

\* The host lists the source may return: h1 absent, disabled or enabled with
\* property p1 and site admin a1; h2 absent or disabled
CollectedShapes(h) ==
    IF h = "h1"
    THEN {Absent, {CollectedHost(h, FALSE, {}, {}, {})},
          {CollectedHost(h, TRUE, {"p1"}, {"a1"}, {2})}}
    ELSE {Absent, {CollectedHost(h, FALSE, {}, {}, {})}}
HostLists ==
    {UNION {choice[h] : h \in HostNames} :
       choice \in {c \in [HostNames -> UNION {CollectedShapes(h) : h \in HostNames}] :
                     \A h \in HostNames : c[h] \in CollectedShapes(h)}}

\* The rows a second source left in hosts_source for h1
OtherSource == "src2"
OtherSourceRows ==
    {{},
     {with_source(CollectedHost("h1", FALSE, {"p2"}, {}, {}), OtherSource)},
     {with_source(CollectedHost("h1", TRUE, {"p2"}, {"a2"}, {1}), OtherSource)}}

\* hosts before the first merger tick: empty, or a row of an earlier run
StaleHosts ==
    {Present([h \in HostNames |-> Absent]),
     Present([h \in HostNames |-> IF h = "h2" THEN merge_hosts(
         {with_source(CollectedHost("h2", TRUE, {}, {}, {}), OtherSource)}, "h2")
                                  ELSE Absent])}

\* collector, handler and merger running, main watching them
InitPipeline ==
    /\ InitFailsafeOkUnconfigured
    /\ dryrun = FALSE
    /\ failsafe = MaxFailsafe
    /\ db_hosts \in StaleHosts
    /\ zabbix_hosts = Present([h \in HostNames |-> Absent])
    /\ zabbix_hostgroups = GroupNames
    /\ calls = <<>>
    /\ tick = NoTick(zabbix_hosts, zabbix_hostgroups, failsafe_ok_file)
    /\ updater_crashed = FALSE
    /\ stop_event = FALSE
    /\ alive = [p \in Processes |-> TRUE]
    /\ started = Processes
    /\ terminated = {}
    /\ main_pc = "monitor"
    /\ stop_reason = {}
    /\ collector_pc = "loop"
    /\ next_update = "none"
    /\ collect_failures = 0
    /\ source_hosts_queue = <<>>
    /\ handler_pc = "loop"
    /\ hosts_source \in OtherSourceRows
    /\ collectable = {Dicts(hosts) : hosts \in HostLists}
    /\ source_hosts = NoBatch
    /\ built = 0
    /\ put_log = <<>>
    /\ handled_log = <<>>
    /\ last_handled = NoHandled
    /\ merger_pc = "idle"
    /\ source_hostnames = {}
    /\ merger_tick = NoMergerTick
    /\ input = NotCollected
    /\ output = {}

NextPipeline ==
    \/ CollectorSleep
    \/ CollectorCollects
    \/ CollectorPut
    \/ HandlerPass
    \/ MergerSnapshot
    \/ MergerFold
    \/ MergerDone

SpecPipeline == InitPipeline /\ [][NextPipeline]_vars

\* A source that lists h1 in some cycles and not in others; h1 was collected
\* and merged before
FlappingLists == {{}, {CollectedHost("h1", TRUE, {}, {}, {})}}
CollectedBefore == {with_source(CollectedHost("h1", TRUE, {}, {}, {}), Collector)}

\* collector, handler and merger running after an earlier merger tick
InitRace ==
    /\ InitFailsafeOkUnconfigured
    /\ dryrun = FALSE
    /\ failsafe = MaxFailsafe
    /\ db_hosts = Present([h \in HostNames |->
                             IF h = "h1" THEN merge_hosts(CollectedBefore, "h1")
                             ELSE Absent])
    /\ zabbix_hosts = Present([h \in HostNames |-> Absent])
    /\ zabbix_hostgroups = GroupNames
    /\ calls = <<>>
    /\ tick = NoTick(zabbix_hosts, zabbix_hostgroups, failsafe_ok_file)
    /\ updater_crashed = FALSE
    /\ stop_event = FALSE
    /\ alive = [p \in Processes |-> TRUE]
    /\ started = Processes
    /\ terminated = {}
    /\ main_pc = "monitor"
    /\ stop_reason = {}
    /\ collector_pc = "loop"
    /\ next_update = "none"
    /\ collect_failures = 0
    /\ source_hosts_queue = <<>>
    /\ handler_pc = "loop"
    /\ hosts_source = CollectedBefore
    /\ collectable = {Dicts(hosts) : hosts \in FlappingLists}
    /\ source_hosts = NoBatch
    /\ built = 0
    /\ put_log = <<>>
    /\ handled_log = <<>>
    /\ last_handled = NoHandled
    /\ merger_pc = "idle"
    /\ source_hostnames = {}
    /\ merger_tick = NoMergerTick
    /\ input = NotCollected
    /\ output = {}

NextRace ==
    \/ CollectorSleep
    \/ CollectorCollects
    \/ CollectorPut
    \/ HandlerPass
    \/ MergerSnapshot
    \/ MergerFold
    \/ MergerDone

SpecRace == InitRace /\ [][NextRace]_vars

\* What a collect() of src1 may return: any of a valid host, a dict that
\* fails validation, and a value that is no dict
CollectedItems ==
    SUBSET {Item("host", CollectedHost("h1", TRUE, {}, {}, {})),
            Item("invalid", CollectedHost("h2", TRUE, {}, {}, {})),
            Item("not a dict", CollectedHost("h2", FALSE, {}, {}, {}))}

\* The rows earlier cycles of src1 left in hosts_source
CollectorSourceRows ==
    {{},
     {with_source(CollectedHost("h1", FALSE, {"p1"}, {}, {}), Collector),
      with_source(CollectedHost("h2", TRUE, {}, {}, {}), Collector)}}

\* collector and handler running: a source whose collect() may fail
InitCollect ==
    /\ InitFailsafeOkUnconfigured
    /\ InitZabbixParked
    /\ stop_event = FALSE
    /\ alive = [p \in Processes |-> TRUE]
    /\ started = Processes
    /\ terminated = {}
    /\ main_pc = "monitor"
    /\ stop_reason = {}
    /\ collector_pc = "loop"
    /\ next_update = "none"
    /\ collect_failures = 0
    /\ source_hosts_queue = <<>>
    /\ handler_pc = "loop"
    /\ hosts_source \in CollectorSourceRows
    /\ collectable = CollectedItems
    /\ source_hosts = NoBatch
    /\ built = 0
    /\ put_log = <<>>
    /\ handled_log = <<>>
    /\ last_handled = NoHandled
    /\ merger_pc = "idle"
    /\ source_hostnames = {}
    /\ merger_tick = NoMergerTick
    /\ input = NotCollected
    /\ output = {}

NextCollect ==
    \/ CollectorSleep
    \/ CollectorCollectFails
    \/ CollectorCollects
    \/ CollectorPut
    \/ HandlerPass

SpecCollect == InitCollect /\ [][NextCollect]_vars

InitSupervisor ==
    /\ InitFailsafeOkUnconfigured
    /\ InitZabbixParked
    /\ InitSupervisorParked
    /\ InitPipelineParked
    /\ input = NotCollected
    /\ output = {}

NextSupervisor ==
    \/ MainStart
    \/ MainMonitorTest
    \/ MainMonitorCheck
    \/ MainTerminate
    \/ MainWait
    \/ SignalReceived
    \/ WorkerDies
    \/ CollectorStop
    \/ CollectorSleep
    \/ CollectorCollectFails
    \/ CollectorCollects
    \/ CollectorPut
    \/ FailureExpires
    \/ HandlerPass
    \/ HandlerStop

SpecSupervisor == InitSupervisor /\ [][NextSupervisor]_vars

-----------------------------------------------------------------------------
(* models.Host and Host.merge *)

\* An Optional[int] or Optional[str] field is the set holding its value, empty
\* for None.  A proxy pattern is named by its rank in alphabetical order.
None == {}

Interface(type, endpoint) == [type |-> type, endpoint |-> endpoint]

Host(hostname, enabled, importance, interfaces, inventory, properties, proxy_pattern, sources) ==
    [hostname |-> hostname, enabled |-> enabled, importance |-> importance,
     interfaces |-> interfaces, inventory |-> inventory, properties |-> properties,
     proxy_pattern |-> proxy_pattern, siteadmins |-> {}, sources |-> sources,
     tags |-> {}]

InterfaceTypes == 1..3

\* sorted(self.interfaces, key=lambda interface: interface.type): stable
RECURSIVE sorted_by_type(_, _)
sorted_by_type(interfaces, type) ==
    IF type \notin InterfaceTypes THEN <<>>
    ELSE SelectSeq(interfaces, LAMBDA i : i.type = type)
             \o sorted_by_type(interfaces, type + 1)

\* [x for x in [a, b] if x]: None and 0 are dropped
truthy(values) == {x \in values : x # 0}

\* lines 119-120
merged_importance(self, other) ==
    LET importances == truthy(self.importance \cup other.importance)
    IN  IF importances # {} THEN {Min(importances)} ELSE None

\* a merge that appends every interface of the other host
merged_interfaces_appending_all(self, other) ==
    sorted_by_type(self.interfaces \o other.interfaces, 1)

\* lines 122-128
merged_interfaces(self, other) ==
    LET self_interface_types == {self.interfaces[i].type : i \in DOMAIN self.interfaces}
        appended == self.interfaces
                      \o SelectSeq(other.interfaces,
                                   LAMBDA i : i.type \notin self_interface_types)
    IN  sorted_by_type(appended, 1)

\* lines 130-134: inventory is a set of <<key, value>> pairs, one per key
merged_inventory(self, other) ==
    self.inventory
      \cup {kv \in other.inventory : ~ \E mine \in self.inventory : mine[1] = kv[1]}

\* lines 136-142
merged_proxy_pattern(self, other) ==
    LET proxy_patterns == truthy(self.proxy_pattern \cup other.proxy_pattern)
    IN  IF proxy_patterns # {} THEN {Min(proxy_patterns)} ELSE self.proxy_pattern

\* Host.merge: self after merge(other)
merge(self, other) ==
    [hostname |-> self.hostname,
     enabled |-> (self.enabled \/ other.enabled),
     importance |-> merged_importance(self, other),
     interfaces |-> merged_interfaces(self, other),
     inventory |-> merged_inventory(self, other),
     properties |-> self.properties \cup other.properties,
     proxy_pattern |-> merged_proxy_pattern(self, other),
     siteadmins |-> self.siteadmins \cup other.siteadmins,
     sources |-> self.sources \cup other.sources,
     tags |-> self.tags \cup other.tags]

\* the records of one hostname folded left to right with Host.merge
RECURSIVE merge_all(_)
merge_all(hosts) ==
    IF Len(hosts) = 1 THEN hosts[1]
    ELSE merge(merge_all(SubSeq(hosts, 1, Len(hosts) - 1)), hosts[Len(hosts)])

\* The records drawn: a plain one, and records that differ from it in one
\* of importance, interfaces, inventory, proxy_pattern, enabled and properties
MaxRecords == 3

\* a source is named by its number
PlainHost(source) == Host("h1", FALSE, None, <<>>, {}, {}, None, {source})

HostRecords(source) ==
    {PlainHost(source),
     Host("h1", TRUE, None, <<>>, {}, {"p1"}, None, {source}),
     Host("h1", FALSE, {0}, <<>>, {}, {}, None, {source}),
     Host("h1", FALSE, {3}, <<>>, {}, {"p2"}, None, {source}),
     Host("h1", FALSE, None, <<Interface(1, "e1")>>, {}, {}, None, {source}),
     Host("h1", FALSE, None, <<Interface(1, "e2"), Interface(2, "e1")>>, {}, {}, None,
          {source}),
     Host("h1", FALSE, None, <<Interface(3, "e1"), Interface(1, "e3")>>, {}, {}, None,
          {source}),
     Host("h1", FALSE, None, <<>>, {<<"k", "v1">>}, {}, None, {source}),
     Host("h1", FALSE, None, <<>>, {<<"k", "v2">>}, {}, None, {source}),
     Host("h1", FALSE, None, <<>>, {}, {}, {1}, {source}),
     Host("h1", FALSE, None, <<>>, {}, {}, {2}, {source})}

\* one record per source, of two or three sources
InitMerge ==
    /\ InitFailsafeOkUnconfigured
    /\ InitZabbixParked
    /\ InitSupervisorParked
    /\ InitPipelineParked
    /\ \E n \in 2..MaxRecords :
         input \in {hosts \in [1..n -> UNION {HostRecords(i) : i \in 1..n}] :
                      \A i \in 1..n : hosts[i] \in HostRecords(i)}
    /\ output = {}

Orders(n) == {f \in [1..n -> 1..n] : \A i, j \in 1..n : i # j => f[i] # f[j]}

\* the records are folded in some order
MergeHosts ==
    /\ output = {}
    /\ \E order \in Orders(Len(input)) :
         output' = {[order |-> order,
                     merged |-> merge_all([i \in 1..Len(input) |-> input[order[i]]])]}
    /\ UNCHANGED <<input, zvars, fvars, svars, pvars>>

NextMerge == MergeHosts

SpecMerge == InitMerge /\ [][NextMerge]_vars

-----------------------------------------------------------------------------
(* compat.run_host_modifier and the modifier chain *)

MaxChain == 3

\* A host modifier's modify(host): it adds the properties in adds to the
\* host it was given, in place, and then returns that host or raises
Modifier(adds, raises) == [adds |-> adds, raises |-> raises]
Modifiers == {Modifier(adds, raises) : adds \in {{}, {"x"}, {"y"}}, raises \in BOOLEAN}

modify(modifier, host) ==
    [host EXCEPT !.properties = @ \cup modifier.adds]

\* a run_host_modifier that hands the caller's host itself to the modifier
run_host_modifier_without_copy(modifier, host) ==
    [raised |-> modifier.raises,
     returned |-> modify(modifier, host),
     argument |-> modify(modifier, host)]

\* lines 22-29: the modifier is called on host.model_copy(deep=True).
\* raised: the call raised; returned: the host it returned otherwise;
\* argument: the caller's host after the call
run_host_modifier(modifier, host) ==
    LET copy == host IN
    [raised |-> modifier.raises,
     returned |-> modify(modifier, copy),
     argument |-> host]

\* The chain of the merger: each modifier in order; what a modifier returns
\* replaces the working host, a modifier that raises is logged and skipped.
\* steps lists, per modifier run, the working host before and after.
RECURSIVE run_host_modifiers(_, _, _)
run_host_modifiers(chain, host, steps) ==
    IF chain = <<>> THEN [host |-> host, steps |-> steps]
    ELSE LET call == run_host_modifier(Head(chain), host)
             after == IF call.raised THEN call.argument ELSE call.returned
         IN  run_host_modifiers(Tail(chain), after,
                 Append(steps, [modifier |-> Head(chain), before |-> host,
                                after |-> after]))

InitModifiers ==
    /\ InitFailsafeOkUnconfigured
    /\ InitZabbixParked
    /\ InitSupervisorParked
    /\ InitPipelineParked
    /\ \E n \in 1..MaxChain :
         input \in [chain : [1..n -> Modifiers],
                    host : {PlainHost(1), Host("h1", TRUE, None, <<>>, {}, {"p1"}, None, {1})}]
    /\ output = {}

\* the merged host goes through the chain
RunHostModifiers ==
    /\ output = {}
    /\ output' = {run_host_modifiers(input.chain, input.host, <<>>)}
    /\ UNCHANGED <<input, zvars, fvars, svars, pvars>>

NextModifiers == RunHostModifiers

SpecModifiers == InitModifiers /\ [][NextModifiers]_vars

-----------------------------------------------------------------------------
(* load_host_modifiers and load_source_collectors *)

MaxModules == 3

\* What importlib.import_module does for a module: it returns a modern, a
\* legacy or an invalid module, or raises ModuleNotFoundError, another
\* ImportError, or an exception that is no ImportError (SyntaxError, or
\* whatever the module's top level raises)
ImportOutcomes == {"modern", "legacy", "invalid", "ModuleNotFoundError",
                   "ImportError", "SyntaxError"}

\* except ImportError: ModuleNotFoundError is a subclass of ImportError
IsImportError(outcome) == outcome \in {"ImportError", "ModuleNotFoundError"}
IsModuleNotFoundError(outcome) == outcome = "ModuleNotFoundError"

Loaded(loaded) == [aborted |-> FALSE, loaded |-> loaded]
Aborted(loaded) == [aborted |-> TRUE, loaded |-> <<>>]

\* hostmodifiers/load.py lines 30-58, from module i on
RECURSIVE load_host_modifiers(_, _, _)
load_host_modifiers(modules, i, host_modifiers) ==
    IF i > Len(modules) THEN Loaded(host_modifiers)
    ELSE IF IsImportError(modules[i]) THEN
             load_host_modifiers(modules, i + 1, host_modifiers)
    ELSE IF modules[i] \in {"modern", "legacy"} THEN
             load_host_modifiers(modules, i + 1, Append(host_modifiers, i))
    ELSE IF modules[i] = "invalid" THEN
             load_host_modifiers(modules, i + 1, host_modifiers)
    ELSE Aborted(host_modifiers)

\* sourcecollectors/load.py lines 20-53, from module i on
RECURSIVE load_source_collectors(_, _, _)
load_source_collectors(modules, i, source_collectors) ==
    IF i > Len(modules) THEN Loaded(source_collectors)
    ELSE IF IsModuleNotFoundError(modules[i]) THEN
             load_source_collectors(modules, i + 1, source_collectors)
    ELSE IF modules[i] \in {"modern", "legacy"} THEN
             load_source_collectors(modules, i + 1, Append(source_collectors, i))
    ELSE IF modules[i] = "invalid" THEN
             load_source_collectors(modules, i + 1, source_collectors)
    ELSE Aborted(source_collectors)

InitLoad ==
    /\ InitFailsafeOkUnconfigured
    /\ InitZabbixParked
    /\ InitSupervisorParked
    /\ InitPipelineParked
    /\ \E n \in 1..MaxModules : input \in [1..n -> ImportOutcomes]
    /\ output = {}

LoadHostModifiers ==
    /\ output = {}
    /\ output' = {[loader |-> "host_modifiers",
                   result |-> load_host_modifiers(input, 1, <<>>)]}
    /\ UNCHANGED <<input, zvars, fvars, svars, pvars>>

LoadSourceCollectors ==
    /\ output = {}
    /\ output' = {[loader |-> "source_collectors",
                   result |-> load_source_collectors(input, 1, <<>>)]}
    /\ UNCHANGED <<input, zvars, fvars, svars, pvars>>

NextLoad ==
    \/ LoadHostModifiers
    \/ LoadSourceCollectors

SpecLoad == InitLoad /\ [][NextLoad]_vars

-----------------------------------------------------------------------------
(* The reconcilers, ticking in any order from any of the start states *)

Init ==
    /\ InitFailsafeOkUnconfigured
    /\ InitHostFamily \/ InitGroupFamily \/ InitTemplateFamily
    /\ InitSupervisorParked
    /\ InitPipelineParked
    /\ InitPureParked

Next ==
    \/ HostUpdaterWork
    \/ HostgroupUpdaterWork
    \/ TemplateUpdaterWork

Spec == Init /\ [][Next]_vars

-----------------------------------------------------------------------------
(* The host reconciler with an OK file configured *)

InitFailsafeTick ==
    /\ InitFailsafeOkAny
    /\ InitHostFamily
    /\ InitSupervisorParked
    /\ InitPipelineParked
    /\ InitPureParked

NextFailsafeTick ==
    \/ HostUpdaterWork
    \/ PlaceOkFile

SpecFailsafeTick == InitFailsafeTick /\ [][NextFailsafeTick]_vars

(* check_failsafe_ok called again and again, the operator placing files *)

InitFailsafeOk ==
    /\ InitFailsafeOkAny
    /\ InitZabbixParked
    /\ InitSupervisorParked
    /\ InitPipelineParked
    /\ InitPureParked

NextFailsafeOk ==
    \/ CheckFailsafeOk
    \/ PlaceOkFile

SpecFailsafeOk == InitFailsafeOk /\ [][NextFailsafeOk]_vars

-----------------------------------------------------------------------------
(* errcount.RollingErrorCounter, whose source is not among the files; *)
(* modelled from its tests and from the description of its operations  *)

\* the clock runs from 0 to MaxClock; durations and tolerances are drawn up
\* to MaxDuration and MaxTolerance; at most MaxErrors add() calls between
\* two reset() calls
MaxClock == 4
MaxDuration == 2
MaxTolerance == 2
MaxErrors == 3

\* RollingErrorCounter(duration, tolerance): errors == []
RollingErrorCounter(duration, tolerance) ==
    [duration |-> duration, tolerance |-> tolerance, errors |-> <<>>]

\* the timestamps of errors, from the i-th on, that are not older than oldest
RECURSIVE unexpired(_, _, _)
unexpired(errors, i, oldest) ==
    IF i > Len(errors) THEN <<>>
    ELSE (IF errors[i] >= oldest THEN <<errors[i]>> ELSE <<>>)
            \o unexpired(errors, i + 1, oldest)

\* add(): the current timestamp is recorded
add(rec, now) == [rec EXCEPT !.errors = Append(@, now)]

\* a count() that never drops a timestamp
count_without_window(rec, now) == [rec |-> rec, result |-> Len(rec.errors)]

\* count(): the timestamps older than now - duration are dropped, the number
\* of the remaining ones is returned
count(rec, now) ==
    LET kept == unexpired(rec.errors, 1, now - rec.duration)
    IN  [rec |-> [rec EXCEPT !.errors = kept], result |-> Len(kept)]

\* a tolerance_exceeded() that is true from count() = tolerance on
tolerance_exceeded_at_tolerance(rec, now) ==
    LET c == count(rec, now) IN [rec |-> c.rec, result |-> c.result >= rec.tolerance]

\* tolerance_exceeded(): count() > tolerance
tolerance_exceeded(rec, now) ==
    LET c == count(rec, now) IN [rec |-> c.rec, result |-> c.result > rec.tolerance]

\* reset(): errors == []
reset(rec) == [rec EXCEPT !.errors = <<>>]

\* input: the counter, the clock, and the timestamps of the add() calls since
\* construction or the last reset(); output: the last call and what it
\* returned
ErrCountState(rec, now, added) == [rec |-> rec, now |-> now, added |-> added]
Returned(op, result) == [op |-> op, result |-> result]

InitErrCount ==
    /\ InitFailsafeOkUnconfigured
    /\ InitZabbixParked
    /\ InitSupervisorParked
    /\ InitPipelineParked
    /\ \E duration \in 1..MaxDuration, tolerance \in 0..MaxTolerance :
         input = ErrCountState(RollingErrorCounter(duration, tolerance), 0, <<>>)
    /\ output = Returned("init", {})

ErrCountAdd ==
    /\ Len(input.added) < MaxErrors
    /\ input' = ErrCountState(add(input.rec, input.now), input.now,
                              Append(input.added, input.now))
    /\ output' = Returned("add", {})
    /\ UNCHANGED <<zvars, fvars, svars, pvars>>

ErrCountCount ==
    /\ LET c == count(input.rec, input.now) IN
       /\ input' = ErrCountState(c.rec, input.now, input.added)
       /\ output' = Returned("count", {c.result})
    /\ UNCHANGED <<zvars, fvars, svars, pvars>>

ErrCountToleranceExceeded ==
    /\ LET c == tolerance_exceeded(input.rec, input.now) IN
       /\ input' = ErrCountState(c.rec, input.now, input.added)
       /\ output' = Returned("tolerance_exceeded", {c.result})
    /\ UNCHANGED <<zvars, fvars, svars, pvars>>

ErrCountReset ==
    /\ input' = ErrCountState(reset(input.rec), input.now, <<>>)
    /\ output' = Returned("reset", {})
    /\ UNCHANGED <<zvars, fvars, svars, pvars>>

\* time passes (time.sleep in the tests)
ErrCountSleep ==
    /\ input.now < MaxClock
    /\ input' = [input EXCEPT !.now = @ + 1]
    /\ output' = Returned("sleep", {})
    /\ UNCHANGED <<zvars, fvars, svars, pvars>>

NextErrCount ==
    \/ ErrCountAdd
    \/ ErrCountCount
    \/ ErrCountToleranceExceeded
    \/ ErrCountReset
    \/ ErrCountSleep

SpecErrCount == InitErrCount /\ [][NextErrCount]_vars

-----------------------------------------------------------------------------
(* SourceMergerProcess._first_sleep_duration, whose source is not among the *)
(* files; modelled from its test and from the description of the first sleep *)

\* at most MaxSources source collectors, update intervals from 0 to MaxInterval
MaxSources == 3
MaxInterval == 3

\* SourceCollectorSettings(module_name, update_interval)
SourceCollectorSettings(module_name, update_interval) ==
    [module_name |-> module_name, update_interval |-> update_interval]

\* max() over the values from the i-th on, best being the largest so far
RECURSIVE max_from(_, _, _)
max_from(values, i, best) ==
    IF i > Len(values) THEN best
    ELSE max_from(values, i + 1, IF values[i] > best THEN values[i] ELSE best)

\* a first sleep of the first collector's interval
first_sleep_duration_of_first_source(source_collectors) ==
    IF source_collectors = <<>> THEN 0 ELSE source_collectors[1].update_interval

\* _first_sleep_duration(): the largest update_interval of source_collectors,
\* 0 when there is none
first_sleep_duration(source_collectors) ==
    IF source_collectors = <<>> THEN 0
    ELSE max_from([i \in DOMAIN source_collectors |->
                     source_collectors[i].update_interval],
                  2, source_collectors[1].update_interval)

InitFirstSleep ==
    /\ InitFailsafeOkUnconfigured
    /\ InitZabbixParked
    /\ InitSupervisorParked
    /\ InitPipelineParked
    /\ \E n \in 0..MaxSources :
         input \in [1..n -> {SourceCollectorSettings("source", u) :
                               u \in 0..MaxInterval}]
    /\ output = {}

\* the merger computes its first sleep
FirstSleepDuration ==
    /\ output = {}
    /\ output' = {first_sleep_duration(input)}
    /\ UNCHANGED <<input, zvars, fvars, svars, pvars>>

NextFirstSleep == FirstSleepDuration

SpecFirstSleep == InitFirstSleep /\ [][NextFirstSleep]_vars

-----------------------------------------------------------------------------
(* db/migration.py: run_migrations *)

\* _MIGRATIONS holds at most MaxMigrations versions; run_migrations is called
\* at most MaxRuns times
MaxMigrations == 2
MaxRuns == 3

\* A version string is the sequence of its characters: 0 stands for ".",
\* d + 1 for the digit d, so that strings compare as they do byte by byte.
\* str(n) of a natural number
RECURSIVE str(_)
str(n) == IF n < 10 THEN <<n + 1>> ELSE str(n \div 10) \o <<(n % 10) + 1>>

\* lines 64-65
semver_to_str(version) ==
    str(version[1]) \o <<0>> \o str(version[2]) \o <<0>> \o str(version[3])

\* version.split("."): the parts of s from character i on, part being the
\* one under construction
RECURSIVE split(_, _, _)
split(s, i, part) ==
    IF i > Len(s) THEN <<part>>
    ELSE IF s[i] = 0 THEN <<part>> \o split(s, i + 1, <<>>)
         ELSE split(s, i + 1, Append(part, s[i]))

\* int() of a string of digits, n being the value of the digits before i
RECURSIVE int(_, _, _)
int(digits, i, n) ==
    IF i > Len(digits) THEN n ELSE int(digits, i + 1, 10 * n + (digits[i] - 1))

\* lines 54-61: the semver of a version string, or no value when the string
\* is no semantic version (the exception of line 57)
str_to_semver(version) ==
    LET res == split(version, 1, <<>>) IN
    IF Len(res) # 3 \/ \E i \in DOMAIN res : res[i] = <<>>
    THEN {}
    ELSE {<<int(res[1], 1, 0), int(res[2], 1, 0), int(res[3], 1, 0)>>}

\* the order of Python's tuples of three integers
semver_less(a, b) ==
    \/ a[1] < b[1]
    \/ a[1] = b[1] /\ a[2] < b[2]
    \/ a[1] = b[1] /\ a[2] = b[2] /\ a[3] < b[3]

\* the order of varchar values, character by character
RECURSIVE string_less(_, _)
string_less(a, b) ==
    IF b = <<>> THEN FALSE
    ELSE IF a = <<>> THEN TRUE
    ELSE IF Head(a) # Head(b) THEN Head(a) < Head(b)
    ELSE string_less(Tail(a), Tail(b))

\* lines 253-255: the keys of _MIGRATIONS, sorted
RECURSIVE sorted(_)
sorted(versions) ==
    IF versions = {} THEN <<>>
    ELSE LET least == CHOOSE v \in versions :
                         \A w \in versions \ {v} : semver_less(v, w)
         IN <<least>> \o sorted(versions \ {least})

MIGRATIONS(migrations) == sorted(Range(migrations))

\* lines 144-162: the largest version string of the table, as a semver;
\* (0, 0, 0) when the table is empty or the string cannot be converted
get_schema_version(table) ==
    IF table = <<>> THEN <<0, 0, 0>>
    ELSE LET rows == Range(table)
             result == CHOOSE r \in rows : \A q \in rows \ {r} : string_less(q, r)
         IN  IF str_to_semver(result) = {} THEN <<0, 0, 0>>
             ELSE CHOOSE v \in str_to_semver(result) : TRUE

\* a migration_exists that finds no row
migration_exists_never(version, table) == FALSE

\* lines 205-210
migration_exists(version, table) ==
    \E i \in DOMAIN table : table[i] = semver_to_str(version)

\* lines 213-224: the INSERT; the primary key refuses a version that is
\* there (UniqueViolation, caught)
record_migration(table, version) ==
    IF \E i \in DOMAIN table : table[i] = semver_to_str(version)
    THEN table
    ELSE Append(table, semver_to_str(version))

\* lines 227-241, for the version it belongs to: the schema change is made
\* unless it is there
migration(schema, version) == schema \cup {version}

\* the database: the rows of schema_migrations and the schema changes made
Database(table, schema) == [table |-> table, schema |-> schema]

\* lines 111-140: the loop over MIGRATIONS from the i-th version on; a
\* migration function of a version in raising raises, which ends the loop
RECURSIVE do_run_migrations(_, _, _, _, _, _)
do_run_migrations(todo, i, version, schema_version, raising, acc) ==
    IF i > Len(todo) \/ acc.failed THEN acc
    ELSE LET migration_version == todo[i] IN
         IF ~semver_less(schema_version, version)
         THEN do_run_migrations(todo, i + 1, version, schema_version, raising, acc)
         ELSE IF migration_exists(migration_version, acc.db.table)
         THEN do_run_migrations(todo, i + 1, version, schema_version, raising, acc)
         ELSE IF migration_version \in raising
         THEN [acc EXCEPT !.failed = TRUE,
                          !.applied = Append(@, migration_version)]
         ELSE do_run_migrations(todo, i + 1, version, schema_version, raising,
                [acc EXCEPT
                   !.db = Database(record_migration(@.table, migration_version),
                                   migration(@.schema, migration_version)),
                   !.applied = Append(@, migration_version)])

\* lines 76-99: one run; commit, or rollback and exit(1) after an exception
run_migrations(db, migrations, version, raising) ==
    LET acc == do_run_migrations(MIGRATIONS(migrations), 1, version,
                                 get_schema_version(db.table), raising,
                                 [db |-> db, applied |-> <<>>, failed |-> FALSE])
    IN  [db |-> IF acc.failed THEN db ELSE acc.db,
         applied |-> acc.applied, ok |-> ~acc.failed]

\* the versions a release may carry migrations for, and the versions of ZAC
MigrationVersions == {<<0, 2, 0>>, <<0, 10, 0>>, <<1, 0, 0>>}
ZacVersions == MigrationVersions \cup {<<0, 1, 0>>}

\* schema_migrations before the first run: no row, the row of an earlier
\* release, or a row that is no semantic version
InitialTables == {<<>>, <<semver_to_str(<<0, 2, 0>>)>>, <<str(1) \o <<0>> \o str(2)>>}

\* input: _MIGRATIONS in the order it is written in, and the version of ZAC;
\* output: the database and the runs made
InitMigration ==
    /\ InitFailsafeOkUnconfigured
    /\ InitZabbixParked
    /\ InitSupervisorParked
    /\ InitPipelineParked
    /\ \E n \in 0..MaxMigrations :
         \E migrations \in [1..n -> MigrationVersions], version \in ZacVersions :
            /\ \A i, j \in 1..n : i # j => migrations[i] # migrations[j]
            /\ input = [migrations |-> migrations, version |-> version]
    /\ \E table \in InitialTables :
         output = [db |-> Database(table, {}), runs |-> <<>>]

\* ZAC starts and runs its migrations
RunMigrations ==
    /\ Len(output.runs) < MaxRuns
    /\ \E raising \in {{}} \cup {{v} : v \in Range(input.migrations)} :
         LET run == run_migrations(output.db, input.migrations, input.version,
                                   raising)
         IN  output' = [db |-> run.db, runs |-> Append(output.runs, run)]
    /\ UNCHANGED <<input, zvars, fvars, svars, pvars>>

NextMigration == RunMigrations

SpecMigration == InitMigration /\ [][NextMigration]_vars

-----------------------------------------------------------------------------
(* utils.read_map_file *)

\* the text of a map file has at most MaxText characters
MaxText == 5

\* the characters of the texts: letters, the separators, blank, the comment
\* sign and the line end
Characters == {"a", ":", ",", " ", "#", "\n"}
Whitespace == {" ", "\n"}

\* line 53: the lines of the file, each with its line end
RECURSIVE file_lines(_, _, _)
file_lines(text, i, line) ==
    IF i > Len(text) THEN (IF line = <<>> THEN <<>> ELSE <<line>>)
    ELSE IF text[i] = "\n"
         THEN <<Append(line, text[i])>> \o file_lines(text, i + 1, <<>>)
         ELSE file_lines(text, i + 1, Append(line, text[i]))

RECURSIVE lstrip(_)
lstrip(s) == IF s # <<>> /\ Head(s) \in Whitespace THEN lstrip(Tail(s)) ELSE s

RECURSIVE rstrip(_)
rstrip(s) ==
    IF s # <<>> /\ s[Len(s)] \in Whitespace THEN rstrip(SubSeq(s, 1, Len(s) - 1))
    ELSE s

\* str.strip()
strip(s) == rstrip(lstrip(s))

\* s.split(sep): the parts of s from character i on
RECURSIVE split_on(_, _, _, _)
split_on(s, sep, i, part) ==
    IF i > Len(s) THEN <<part>>
    ELSE IF s[i] = sep THEN <<part>> \o split_on(s, sep, i + 1, <<>>)
         ELSE split_on(s, sep, i + 1, Append(part, s[i]))

\* s.split(sep, 1): s itself when it holds no sep, else what is before and
\* what is after the first sep
split_once(s, sep) ==
    IF \A i \in DOMAIN s : s[i] # sep THEN <<s>>
    ELSE LET at == CHOOSE i \in DOMAIN s :
                     s[i] = sep /\ \A j \in 1..(i - 1) : s[j] # sep
         IN  <<SubSeq(s, 1, at - 1), SubSeq(s, at + 1, Len(s))>>

\* filter(None, strings) and no filter at all
RECURSIVE filter_none(_)
filter_none(strings) ==
    IF strings = <<>> THEN <<>>
    ELSE (IF Head(strings) = <<>> THEN <<>> ELSE <<Head(strings)>>)
            \o filter_none(Tail(strings))

\* values that keep the empty strings
values_of_unfiltered(value) ==
    LET parts == split_on(value, ",", 1, <<>>)
    IN  [i \in DOMAIN parts |-> strip(parts[i])]

\* line 69: list(filter(None, [s.strip() for s in value.split(",")]))
values_of(value) ==
    LET parts == split_on(value, ",", 1, <<>>)
    IN  filter_none([i \in DOMAIN parts |-> strip(parts[i])])

\* the exceptions of lines 61-73 and the except clause of line 74
ValueError == [exception |-> "ValueError"]
Entry(key, values) == [exception |-> "none", key |-> key, values |-> values]
except_ValueError(outcome) == outcome.exception = "ValueError"

\* lines 61-73: the try block for one stripped line
parse_line(line) ==
    LET res == split_once(line, ":") IN
    IF Len(res) # 2 THEN ValueError
    ELSE LET key == strip(res[1])
             values == values_of(res[2])
         IN  IF key = <<>> THEN ValueError
             ELSE IF values = <<>> \/ \A i \in DOMAIN values : values[i] = <<>>
                  THEN ValueError
                  ELSE Entry(key, values)

\* lines 82-90
map_add(map, key, values) ==
    [k \in DOMAIN map \cup {key} |->
       IF k = key THEN (IF key \in DOMAIN map THEN map[key] \o values ELSE values)
       ELSE map[k]]

\* list(dict.fromkeys(values)): the first occurrence of each value
RECURSIVE dict_fromkeys(_, _, _)
dict_fromkeys(values, i, seen) ==
    IF i > Len(values) THEN <<>>
    ELSE IF values[i] \in seen THEN dict_fromkeys(values, i + 1, seen)
         ELSE <<values[i]>> \o dict_fromkeys(values, i + 1, seen \cup {values[i]})

\* lines 53-90: the loop over the lines from the i-th on
RECURSIVE read_lines(_, _, _)
read_lines(lines, i, acc) ==
    IF i > Len(lines) \/ acc.raised THEN acc
    ELSE LET line == strip(lines[i]) IN
         IF line = <<>> \/ Head(line) = "#"
         THEN read_lines(lines, i + 1, acc)
         ELSE LET outcome == parse_line(line) IN
              IF except_ValueError(outcome) THEN read_lines(lines, i + 1, acc)
              ELSE IF outcome.exception # "none"
                   THEN [acc EXCEPT !.raised = TRUE]
                   ELSE read_lines(lines, i + 1,
                          [acc EXCEPT !.map = map_add(@, outcome.key, outcome.values)])

\* lines 49-102
read_map_file(text) ==
    LET acc == read_lines(file_lines(text, 1, <<>>), 1,
                          [raised |-> FALSE, map |-> <<>>])
    IN  [raised |-> acc.raised,
         map |-> [key \in DOMAIN acc.map |-> dict_fromkeys(acc.map[key], 1, {})]]

InitMapFile ==
    /\ InitFailsafeOkUnconfigured
    /\ InitZabbixParked
    /\ InitSupervisorParked
    /\ InitPipelineParked
    /\ \E n \in 0..MaxText : input \in [1..n -> Characters]
    /\ output = {}

\* the file is read
ReadMapFile ==
    /\ output = {}
    /\ output' = {read_map_file(input)}
    /\ UNCHANGED <<input, zvars, fvars, svars, pvars>>

NextMapFile == ReadMapFile

SpecMapFile == InitMapFile /\ [][NextMapFile]_vars

-----------------------------------------------------------------------------
(* A reconciler's loop: work() called again after update_interval, with the *)
(* hosts collection and the maps as they were                               *)

\* a reconciler's work() is called at most MaxTicks times
MaxTicks == 2

\* what is kept of the tick before the last one: whose it was, whether it
\* sent a call and whether all its calls succeeded
Earlier(who, sent, ok) == [who |-> who, sent |-> sent, ok |-> ok]

\* lines 289-299: the next pass of the loop of the reconciler who
NextTick(who) ==
    /\ output < MaxTicks
    /\ tick.who \in {"none", who}
    /\ output' = output + 1
    /\ input' = Earlier(tick.who, calls # <<>>, \A i \in DOMAIN calls : calls[i].ok)
    /\ UNCHANGED <<fvars, svars, pvars>>

HostUpdaterTick ==
    /\ ~updater_crashed
    /\ \E api_fail \in SUBSET HostNames :
         Commit("host", host_updater_work(api_fail))
    /\ NextTick("host")

HostgroupUpdaterTick ==
    /\ \E api_fail \in SUBSET HostNames, create_fail \in {{}, GroupNames} :
         Commit("hostgroup", hostgroup_updater_work(api_fail, create_fail))
    /\ NextTick("hostgroup")

TemplateUpdaterTick ==
    /\ \E api_fail \in TemplateCallFailures :
         Commit("template", template_updater_work(api_fail))
    /\ NextTick("template")

InitTicks ==
    /\ InitFailsafeOkUnconfigured
    /\ InitHostFamily \/ InitGroupFamily \/ InitTemplateFamily
    /\ InitSupervisorParked
    /\ InitPipelineParked
    /\ input = Earlier("none", FALSE, TRUE)
    /\ output = 0

NextTicks ==
    \/ HostUpdaterTick
    \/ HostgroupUpdaterTick
    \/ TemplateUpdaterTick

SpecTicks == InitTicks /\ [][NextTicks]_vars

-----------------------------------------------------------------------------
(* What the last tick saw, recomputed from the state before it *)

CallSet == {calls[i] : i \in DOMAIN calls}
HostUpdates == {c \in CallSet : c.method = "host.update"}

PreManagedHosts ==
    {h \in DOMAIN tick.pre :
       tick.pre[h].status = 0 /\ "All-manual-hosts" \notin tick.pre[h].groups}
PreDbEnabled == {h \in DOMAIN db_hosts : db_hosts[h].enabled}
PreToRemove == PreManagedHosts \ PreDbEnabled
PreToAdd == PreDbEnabled \ PreManagedHosts

\* The managed sets as the reconcilers' contract states them
DeclaredManagedHostgroups ==
    (UNION Range(property_hostgroup_map))
        \cup (UNION Range(siteadmin_hostgroup_map))
        \cup {g \in GroupNames : IsSourcePrefixed(g)}
        \cup {"All-hosts"}
DeclaredManagedTemplates ==
    {t \in zabbix_templates : \E p \in DOMAIN property_template_map :
                                 t \in property_template_map[p]}

-----------------------------------------------------------------------------
(* C1..C5: the reconcilers *)

\* C1: a host reconciler tick (no failsafe OK file) with more hosts to
\* disable, or more hosts to add, than the failsafe sends no mutating call;
\* a tick where both counts are at most the failsafe is not aborted, and
\* sends its calls.
C1_FailsafeGate ==
    tick.who = "host" =>
      /\ (Cardinality(PreToRemove) > failsafe \/ Cardinality(PreToAdd) > failsafe)
            => (calls = <<>> /\ tick.aborted)
      /\ (Cardinality(PreToRemove) <= failsafe /\ Cardinality(PreToAdd) <= failsafe)
            => /\ ~tick.aborted
               /\ ( /\ ~dryrun
                    /\ {"All-hosts", "All-auto-disabled-hosts"} \subseteq tick.pre_groups
                    /\ PreToRemove \cup PreToAdd # {} )
                  => calls # <<>>

C1_Witness ==
    /\ tick.who = "host"
    /\ ~dryrun
    /\ failsafe >= 1
    /\ Cardinality(PreToAdd) > failsafe
    /\ Cardinality(PreToRemove) <= failsafe
    /\ calls = <<>>

\* C2: no host.update of any reconciler targets a Zabbix host that is a
\* member of All-manual-hosts.
C2_ManualHostNeverUpdated ==
    \A c \in HostUpdates : "All-manual-hosts" \notin tick.pre[c.host].groups

\* C3: with dryrun set, no reconciler sends a mutating call (host.update,
\* host.create, hostgroup.create).
C3_DryrunSendsNothing ==
    dryrun => calls = <<>>

C3_Witness ==
    /\ dryrun
    /\ tick.who = "hostgroup"
    /\ tick.updating # {}
    /\ \E h \in tick.updating : "Source-s1" \notin tick.pre_groups

\* C4: a host.update of the host-group reconciler keeps every group of the
\* host that is outside the managed set and adds only groups of the managed
\* set.
C4_HostgroupContainment ==
    tick.who = "hostgroup" =>
      \A c \in HostUpdates :
        LET old == tick.pre[c.host].groups
        IN /\ c.params = {"groups"}
           /\ (old \ DeclaredManagedHostgroups) \subseteq c.groups
           /\ (c.groups \ old) \subseteq DeclaredManagedHostgroups

C4_Witness ==
    /\ tick.who = "hostgroup"
    /\ \E c \in HostUpdates :
         LET old == tick.pre[c.host].groups
         IN /\ "ug1" \in old
            /\ "sg1" \in c.groups \ old
            /\ old \ c.groups # {}
            /\ c.ok

\* C5: the template reconciler clears only managed templates, every list of
\* templates it links keeps the unmanaged templates of the host and adds only
\* managed ones, and after the tick every unmanaged template that was linked
\* is still linked.
C5_TemplateContainment ==
    tick.who = "template" =>
      /\ \A c \in CallSet :
           LET old == tick.pre[c.host].templates
           IN /\ c.method = "host.update"
              /\ c.templates_clear \subseteq DeclaredManagedTemplates
              /\ "templates" \in c.params =>
                    /\ (old \ DeclaredManagedTemplates) \subseteq c.templates
                    /\ (c.templates \ old) \subseteq DeclaredManagedTemplates
      /\ \A h \in DOMAIN tick.pre :
           (tick.pre[h].templates \ DeclaredManagedTemplates)
               \subseteq zabbix_hosts[h].templates

C5_Witness ==
    /\ tick.who = "template"
    /\ \E c \in CallSet :
         /\ c.templates_clear # {}
         /\ c.ok
         /\ "T_u" \in tick.pre[c.host].templates
         /\ "T_u" \in zabbix_hosts[c.host].templates

-----------------------------------------------------------------------------
(* C6..C8: the failsafe OK file *)

\* C6: when more hosts are pending than the failsafe allows and the OK file
\* exists, the host reconciler deletes the file and proceeds in the same tick,
\* creating or enabling every pending host.
C6_OkFileLetsTickProceed ==
    ( /\ tick.who = "host"
      /\ ~dryrun
      /\ ok_history = <<>>
      /\ tick.pre_ok_file = "present"
      /\ Cardinality(PreToAdd) > failsafe
      /\ PreToRemove = {}
      /\ "All-hosts" \in tick.pre_groups )
    => /\ failsafe_ok_file = "absent"
       /\ \A h \in PreToAdd :
            \E c \in CallSet : c.host = h /\ c.method \in {"host.create", "host.update"}

Checks == {i \in DOMAIN ok_history : ok_history[i].ev = "check"}
PlacedBetween(i, j) ==
    \E k \in DOMAIN ok_history : i < k /\ k < j /\ ok_history[k].ev = "place"

\* C7 as stated: once a check has let a tick proceed, no later check does
\* unless a new OK file was placed in between.
C7_OneFileOneTick ==
    \A i, j \in Checks :
      (i < j /\ ok_history[i].result /\ ok_history[j].result) => PlacedBetween(i, j)

\* C7 as amended: an OK file that can be deleted acknowledges exactly one
\* check: the check that finds it returns True and deletes it, and no later
\* check returns True unless a new OK file was placed in between.
C7_DeletableFileOneTick ==
    \A i \in Checks :
      ok_history[i].file = "present" =>
        /\ ok_history[i].result
        /\ \A j \in Checks :
             (i < j /\ ok_history[j].result) => PlacedBetween(i, j)

C7_Witness ==
    \E i, j \in Checks :
      /\ j = i + 1
      /\ ok_history[i].file = "present"
      /\ ok_history[i].result
      /\ ~ok_history[j].result

\* C8: check_failsafe_ok returns False when no file is configured and when
\* the file does not exist, and creates no file; when the file exists and
\* cannot be deleted it returns False in strict mode and True otherwise.
C8_CheckFailsafeOkResults ==
    \A i \in Checks :
      LET e == ok_history[i]
      IN /\ e.file \in {"unconfigured", "absent"} => (~e.result /\ e.after = e.file)
         /\ e.file = "undeletable" => (e.result = ~failsafe_ok_file_strict)

C8_Witness ==
    /\ ~failsafe_ok_file_strict
    /\ \E i, j \in Checks :
         /\ i < j
         /\ ok_history[i].file = "absent" /\ ~ok_history[i].result
         /\ ok_history[j].file = "undeletable" /\ ok_history[j].result

-----------------------------------------------------------------------------
(* The supervisor and the source collector *)

\* C9: a source collector whose collect() keeps failing exits its loop as
\* soon as the failures inside the rolling window exceed the tolerance: no
\* collector is still running with more than Tolerance failures in the window
C9_FailingCollectorExits ==
    collect_failures > Tolerance => ~alive[Collector]

\* C10: whenever the supervisor has observed a dead worker or a signal has
\* arrived the stop flag is set; the flag, once set, is never cleared; the
\* shutdown loop is entered only after terminate() was called on every
\* started worker; and the shutdown loop ends only when no worker is alive
C10_StopFlagAndShutdown ==
    /\ [](stop_reason # {} => stop_event)
    /\ [][stop_event => stop_event']_vars
    /\ [](main_pc \in {"wait", "exit"} => terminated = Processes)
    /\ [](main_pc = "crashed" => started \subseteq terminated)
    /\ [](main_pc = "exit" => (\A p \in Processes : ~alive[p]))

\* main has left the shutdown loop after a dead worker made it set the flag
C10_Witness ==
    /\ main_pc = "exit"
    /\ "dead" \in stop_reason
    /\ stop_event
    /\ terminated = Processes

-----------------------------------------------------------------------------
(* Collector, queue, handler and merger *)

\* C11: after the stop flag is set every worker leaves its loop; a collector
\* whose queue is full, with the handler already gone, is not left waiting
\* in put for room that nobody will make
C11_StoppedCollectorNotBlocked ==
    ~ (/\ stop_event
       /\ ~alive[Handler]
       /\ alive[Collector]
       /\ collector_pc = "put"
       /\ queue_full(source_hosts_queue))

\* C12: the queue never holds more than one batch; a collector that has
\* built a batch it could not put yet has built no other since; and every
\* batch put is either handled or still on the queue, in the order put
C12_QueueHoldsOneBatch ==
    /\ Len(source_hosts_queue) <= 1
    /\ built = Len(put_log) + Cardinality(source_hosts)
    /\ (collector_pc = "put") = (source_hosts # NoBatch)
    /\ put_log = handled_log \o source_hosts_queue

\* the collector has built its second batch and waits in put on a full queue
C12_Witness ==
    /\ collector_pc = "put"
    /\ queue_full(source_hosts_queue)
    /\ built = 2
    /\ alive[Handler]

\* C13: the handler takes the batches of the source in the order the
\* collector put them: the i-th batch handled is the i-th batch put
C13_HandledInPutOrder ==
    /\ Len(handled_log) <= Len(put_log)
    /\ \A i \in 1..Len(handled_log) :
         /\ handled_log[i] = put_log[i]
         /\ handled_log[i].n = i

\* two batches of different content were put and handled
C13_Witness ==
    /\ Len(handled_log) = 2
    /\ handled_log[1].hosts # handled_log[2].hosts
    /\ last_handled.n = 2

\* C14: when a database operation failed while the handler applied a batch,
\* hosts_source is what it was before that batch
C14_FailedBatchLeavesNoTrace ==
    last_handled.failed => hosts_source = last_handled.before

\* C15: after a completed merger tick the hostnames of hosts are exactly the
\* hostnames of the tick's snapshot of hosts_source
C15_HostsMatchSnapshot ==
    (merger_pc = "idle" /\ merger_tick.done)
        => DOMAIN db_hosts = merger_tick.snapshot

\* C18: the merged row the merger wrote for a hostname in the current or
\* last tick has enabled = the OR of the enabled flags of the hosts_source
\* rows it read, properties and siteadmins = the unions over them, and
\* sources = exactly their sources
C18_MergedRowIsUnionOfRows ==
    \A e \in merger_tick.read :
        e.rows # {} =>
            /\ e.hostname \in DOMAIN db_hosts
            /\ db_hosts[e.hostname].enabled = (TRUE \in {r.enabled : r \in e.rows})
            /\ \A p \in {"p1", "p2"} :
                 (p \in db_hosts[e.hostname].properties)
                     = (\E r \in e.rows : p \in r.properties)
            /\ \A a \in {"a1", "a2"} :
                 (a \in db_hosts[e.hostname].siteadmins)
                     = (\E r \in e.rows : a \in r.siteadmins)
            /\ \A src \in {Collector, OtherSource} :
                 (src \in db_hosts[e.hostname].sources)
                     = (\E r \in e.rows : r.source = src)

\* a tick merged a disabled row of one source with an enabled row of the
\* other, each with its own property
C18_Witness ==
    /\ merger_tick.done
    /\ \E e \in merger_tick.read :
         /\ Cardinality(e.rows) = 2
         /\ {r.enabled : r \in e.rows} = {TRUE, FALSE}
         /\ db_hosts[e.hostname].properties = {"p1", "p2"}
         /\ db_hosts[e.hostname].sources = {Collector, OtherSource}

-----------------------------------------------------------------------------
(* Host.merge *)

\* C16: folding the per-source records of a hostname with Host.merge gives
\* the same merged Host in every order: the result of the order taken is the
\* result of the order the records came in
C16_MergeOrderIndependent ==
    \A o \in output : o.merged = merge_all(input)

\* C17: after merging two Hosts, importance is the minimum of the values
\* that are not None, 0 included, and None only when both are None
C17_ImportanceIsMinOfNonNull ==
    \A o \in output :
        Len(input) = 2 =>
            LET given == input[1].importance \cup input[2].importance
            IN  o.merged.importance = IF given = None THEN None ELSE {Min(given)}

-----------------------------------------------------------------------------
(* Modifiers and loaders *)

C20_LoaderSkipsFailedImport ==
    \A o \in output :
        /\ ~o.result.aborted
        /\ o.result.loaded
             = SelectSeq([i \in DOMAIN input |-> i],
                         LAMBDA i : input[i] \in {"modern", "legacy"})

-----------------------------------------------------------------------------
(* The template and the host reconciler, call by call *)

ClearCalls(h) == {i \in DOMAIN calls : calls[i].host = h
                                       /\ "templates_clear" \in calls[i].params}
LinkCalls(h) == {i \in DOMAIN calls : calls[i].host = h
                                      /\ "templates" \in calls[i].params}

\* C21: in a template reconciler tick the call that unlinks and clears a
\* host's templates comes before the call that links the host's new
\* template set, and that call follows it
C21_ClearBeforeLink ==
    tick.who = "template" =>
      \A h \in HostNames :
        \A i \in ClearCalls(h) :
            /\ \A j \in LinkCalls(h) : i < j
            /\ LinkCalls(h) # {}

\* a host had a template cleared and another one linked in the same tick
C21_Witness ==
    /\ tick.who = "template"
    /\ \E h \in HostNames :
         /\ ClearCalls(h) # {}
         /\ \E j \in LinkCalls(h) :
              calls[j].templates \ tick.pre[h].templates # {}

\* the templates mapped from the host's properties that exist in Zabbix
DesiredTemplates(h) ==
    {t \in zabbix_templates :
       \E p \in db_hosts[h].properties \cap DOMAIN property_template_map :
          t \in property_template_map[p]}

SuccessfulTemplateTick ==
    /\ tick.who = "template"
    /\ ~dryrun
    /\ \A c \in CallSet : c.ok

CallsFor(h) == {i \in DOMAIN calls : calls[i].host = h}

CompletedHostTick ==
    /\ tick.who = "host"
    /\ ~tick.aborted
    /\ ~dryrun
    /\ ~updater_crashed

\* C29: in a host reconciler tick that was not aborted, is no dry run and
\* ran to its end, each monitored managed Zabbix host without an enabled DB
\* row gets one host.update with status 1, no templates and the one group
\* All-auto-disabled-hosts; each enabled DB hostname without a monitored
\* managed Zabbix host gets one enabling host.update or host.create; and no
\* other hostname gets a call
C29_DisableAndEnableSets ==
    CompletedHostTick =>
      /\ \A h \in PreToRemove :
           /\ Cardinality(CallsFor(h)) = 1
           /\ \A i \in CallsFor(h) :
                /\ calls[i].method = "host.update"
                /\ calls[i].params = {"status", "templates", "groups"}
                /\ calls[i].status = 1
                /\ calls[i].templates = {}
                /\ calls[i].groups = {"All-auto-disabled-hosts"}
      /\ \A h \in PreToAdd :
           /\ Cardinality(CallsFor(h)) = 1
           /\ \A i \in CallsFor(h) :
                /\ calls[i].method \in {"host.update", "host.create"}
                /\ calls[i].status = 0
      /\ \A h \in HostNames \ (PreToRemove \cup PreToAdd) : CallsFor(h) = {}

\* one host was disabled and the other enabled in the same tick
C29_Witness ==
    /\ CompletedHostTick
    /\ PreToRemove # {}
    /\ PreToAdd # {}
    /\ Len(calls) = 2

\* C30: enabling a hostname that Zabbix knows sends one host.update with
\* status 0 and the group All-hosts and no host.create; enabling a hostname
\* Zabbix does not know sends one host.create with status 0, the group
\* All-hosts and the one default agent interface
C30_EnableUpdatesOrCreates ==
    CompletedHostTick =>
      \A h \in PreToAdd :
        /\ Cardinality(CallsFor(h)) = 1
        /\ \A i \in CallsFor(h) :
             /\ calls[i].status = 0
             /\ calls[i].groups = {"All-hosts"}
             /\ IF h \in DOMAIN tick.pre
                THEN /\ calls[i].method = "host.update"
                     /\ calls[i].params = {"status", "groups"}
                ELSE /\ calls[i].method = "host.create"
                     /\ calls[i].interfaces
                          = <<[dns |-> h, ip |-> "", useip |-> 0, type |-> 1,
                               port |-> 10050, main |-> 1]>>

\* a tick enabled a disabled host that Zabbix knew and created one it did not
C30_Witness ==
    /\ CompletedHostTick
    /\ \E h \in PreToAdd : h \in DOMAIN tick.pre /\ tick.pre[h].status = 1
    /\ \E h \in PreToAdd : h \notin DOMAIN tick.pre

-----------------------------------------------------------------------------
(* The handler's batch and hosts_source *)

RowsOf(hs, source) == {r \in hs : r.source = source}
RowsNotOf(hs, source) == {r \in hs : r.source # source}

\* C28: after the handler applied a batch with no database failure, the
\* hosts_source rows of the batch's source are exactly the hosts of the
\* batch, and the rows of every other source are what they were
C28_SourceRowsAreTheBatch ==
    (last_handled.n > 0 /\ ~last_handled.failed) =>
       LET batch == handled_log[last_handled.n] IN
       /\ RowsOf(hosts_source, batch.source) = batch.hosts
       /\ RowsNotOf(hosts_source, batch.source)
            = RowsNotOf(last_handled.before, batch.source)

\* a batch was applied that dropped a hostname of its source, stored a host,
\* and found a row of another source
C28_Witness ==
    /\ last_handled.n > 0 /\ ~last_handled.failed
    /\ LET batch == handled_log[last_handled.n] IN
       /\ \E r \in RowsOf(last_handled.before, batch.source) :
            r.hostname \notin {h.hostname : h \in batch.hosts}
       /\ \E h \in batch.hosts : h \notin last_handled.before
       /\ RowsNotOf(last_handled.before, batch.source) # {}

-----------------------------------------------------------------------------
(* The rolling error counter *)

\* the add() calls since the last reset() whose timestamp lies in the window
AddsInWindow ==
    {i \in DOMAIN input.added : input.added[i] >= input.now - input.rec.duration}

\* C23: tolerance_exceeded() returns true exactly when the number of add()
\* calls inside the window is greater than the tolerance, and after reset()
\* the counter holds no error, so that count() is 0 and tolerance_exceeded()
\* false
C23_ExceededIffCountAboveTolerance ==
    /\ output.op = "tolerance_exceeded"
         => output.result = {Cardinality(AddsInWindow) > input.rec.tolerance}
    /\ output.op = "reset"
         => /\ count(input.rec, input.now).result = 0
            /\ ~tolerance_exceeded(input.rec, input.now).result

\* tolerance + 1 add() calls in the window, with a tolerance above 0, made
\* tolerance_exceeded() true
C23_Witness ==
    /\ output.op = "tolerance_exceeded"
    /\ output.result = {TRUE}
    /\ input.rec.tolerance > 0
    /\ Cardinality(AddsInWindow) = input.rec.tolerance + 1

\* C24: count() returns the number of add() calls whose timestamp is not
\* older than now - duration, and leaves exactly those in the counter
C24_CountIsRolling ==
    output.op = "count"
      => /\ output.result = {Cardinality(AddsInWindow)}
         /\ Len(input.rec.errors) = Cardinality(AddsInWindow)
         /\ \A i \in DOMAIN input.rec.errors :
              input.rec.errors[i] >= input.now - input.rec.duration

\* two errors expired, one was added after that, and count() returned 1
C24_Witness ==
    /\ output.op = "count"
    /\ output.result = {1}
    /\ Len(input.added) = 3
    /\ input.added[2] < input.now - input.rec.duration
    /\ input.added[3] >= input.now - input.rec.duration

-----------------------------------------------------------------------------
(* The merger's first sleep *)

\* C27: the first sleep is an update_interval of a configured source
\* collector that no other collector's update_interval exceeds, and 0 when no
\* source collector is configured
C27_FirstSleepIsMaxInterval ==
    \A d \in output :
       IF input = <<>> THEN d = 0
       ELSE /\ \E i \in DOMAIN input : d = input[i].update_interval
            /\ \A i \in DOMAIN input : d >= input[i].update_interval

\* three collectors whose largest interval is neither the first nor the last
C27_Witness ==
    /\ output # {}
    /\ Len(input) = 3
    /\ input[2].update_interval > input[1].update_interval
    /\ input[2].update_interval > input[3].update_interval

-----------------------------------------------------------------------------
(* The migration runner *)

\* C25: a run of the migration runner that follows a run that went through
\* applies no migration function and leaves schema_migrations and the schema
\* as they were; schema_migrations holds no version twice; and each run
\* applies its versions in ascending semver order
C25_SecondRunChangesNothing ==
    /\ \A i \in DOMAIN output.runs :
         /\ (i > 1 /\ output.runs[i - 1].ok)
              => /\ output.runs[i].applied = <<>>
                 /\ output.runs[i].db = output.runs[i - 1].db
         /\ \A j, k \in DOMAIN output.runs[i].applied :
              j < k => semver_less(output.runs[i].applied[j],
                                   output.runs[i].applied[k])
    /\ \A j, k \in DOMAIN output.db.table :
         j # k => output.db.table[j] # output.db.table[k]

\* a first run applied two versions that _MIGRATIONS lists in descending
\* order, one of them above 0.9, and a second run followed
C25_Witness ==
    /\ Len(output.runs) >= 2
    /\ output.runs[1].ok /\ output.runs[2].ok
    /\ Len(output.runs[1].applied) = 2
    /\ Len(input.migrations) = 2
    /\ semver_less(input.migrations[2], input.migrations[1])
    /\ Len(output.db.table) >= 2

-----------------------------------------------------------------------------
(* The map file *)

\* C26: whatever the text of the map file, read_map_file returns without
\* raising, and the mapping it returns has no empty key, no key with an
\* empty list of values and no empty value
C26_MapFileNeverRaisesNorEmpty ==
    \A m \in output :
       /\ ~m.raised
       /\ \A key \in DOMAIN m.map :
            /\ key # <<>>
            /\ m.map[key] # <<>>
            /\ \A i \in DOMAIN m.map[key] : m.map[key][i] # <<>>

\* a line with an empty value next to a value: "a:,a" gives a -> [a]
C26_Witness ==
    /\ input = <<"a", ":", ",", "a">>
    /\ \E m \in output : DOMAIN m.map = {<<"a">>} /\ m.map[<<"a">>] = <<(<<"a">>)>>

-----------------------------------------------------------------------------
(* Two ticks of one reconciler *)

\* C33: when a reconciler's tick that was no dry run had all its calls
\* succeed, the next tick of the same reconciler, over the same hosts
\* collection and maps, sends no call
C33_ReconciledIsFixedPoint ==
    (input.who = tick.who /\ ~dryrun /\ input.ok) => calls = <<>>

\* a tick that sent calls, all successful, was followed by a tick of the same
\* reconciler that sent none
C33_Witness ==
    /\ input.who = tick.who
    /\ tick.who = "hostgroup"
    /\ ~dryrun
    /\ input.sent /\ input.ok
    /\ calls = <<>>

-----------------------------------------------------------------------------
(* The host-group reconciler, host by host *)

SiteadminHostgroups == UNION Range(siteadmin_hostgroup_map)

\* the desired groups of a host: All-hosts, the groups mapped from its
\* properties and from its siteadmins, and Source-s for each of its sources
DesiredHostgroups(h) ==
    {"All-hosts"}
       \cup {g \in GroupNames :
               \E p \in db_hosts[h].properties \cap DOMAIN property_hostgroup_map :
                  g \in property_hostgroup_map[p]}
       \cup {g \in GroupNames :
               \E a \in db_hosts[h].siteadmins \cap DOMAIN siteadmin_hostgroup_map :
                  g \in siteadmin_hostgroup_map[a]}
       \cup {SourceGroupName(src) : src \in db_hosts[h].sources}

GroupUpdatesOf(h) ==
    {i \in DOMAIN calls : calls[i].method = "host.update" /\ calls[i].host = h}

\* C31: the managed set of a host-group tick holds every group of the
\* siteadmin map, so after a tick that is no dry run and whose calls all
\* succeeded, no managed host enabled in the DB is left in a siteadmin group
\* that is not among its desired groups
C31_SiteadminGroupsManaged ==
    /\ SiteadminHostgroups \subseteq managed_hostgroup_names
    /\ (tick.who = "hostgroup" /\ ~dryrun /\ \A c \in CallSet : c.ok) =>
         \A h \in PreManagedHosts \cap PreDbEnabled :
            \A g \in SiteadminHostgroups \cap tick.pre[h].groups :
               g \notin DesiredHostgroups(h) => g \notin zabbix_hosts[h].groups

\* C32: in a host-group tick that is no dry run, each managed host enabled in
\* the DB whose groups differ from (its groups minus the managed groups that
\* are not desired) plus its desired groups gets exactly one host.update,
\* with that group set, and each other such host gets none
C32_GroupSetSent ==
    (tick.who = "hostgroup" /\ ~dryrun) =>
      \A h \in PreManagedHosts \cap PreDbEnabled :
         LET current == tick.pre[h].groups
             desired == DesiredHostgroups(h)
             new == (current \ (DeclaredManagedHostgroups \ desired)) \cup desired
         IN  IF new = current THEN GroupUpdatesOf(h) = {}
             ELSE /\ Cardinality(GroupUpdatesOf(h)) = 1
                  /\ \A i \in GroupUpdatesOf(h) : calls[i].groups = new

\* C36: a tick of the host-group or of the template reconciler sends no call
\* for a Zabbix host that has no enabled row in hosts, and leaves the host's
\* groups and templates as they were
C36_NoUpdateWithoutEnabledRow ==
    tick.who \in {"hostgroup", "template"} =>
      \A h \in DOMAIN tick.pre \ PreDbEnabled :
         /\ \A i \in DOMAIN calls : calls[i].host # h
         /\ zabbix_hosts[h] = tick.pre[h]

\* a template tick updated a host while another monitored, managed host with
\* a disabled row and a managed template linked was passed over
C36_Witness ==
    /\ tick.who = "template"
    /\ ~dryrun
    /\ calls # <<>>
    /\ \E h \in PreManagedHosts :
         /\ h \in DOMAIN db_hosts /\ ~db_hosts[h].enabled
         /\ tick.pre[h].templates \cap DeclaredManagedTemplates # {}
         /\ zabbix_hosts[h] = tick.pre[h]

CreatesOf(g) ==
    {i \in DOMAIN calls : calls[i].method = "hostgroup.create" /\ calls[i].host = g}

\* C38: in one host-group tick hostgroup.create is called at most once for a
\* group name, and when that call succeeded every host.update that names the
\* group carries the id it returned
C38_GroupCreatedOnce ==
    tick.who = "hostgroup" =>
      \A g \in GroupNames :
         /\ Cardinality(CreatesOf(g)) <= 1
         /\ (\E i \in CreatesOf(g) : calls[i].ok)
               => \A c \in HostUpdates : g \notin c.badids

\* C39: when the clearing call for a host failed in a template tick, no
\* linking call is sent for that host in that tick
C39_NoLinkAfterFailedClear ==
    tick.who = "template" =>
      \A h \in HostNames :
         (\E i \in ClearCalls(h) : ~calls[i].ok) => LinkCalls(h) = {}

-----------------------------------------------------------------------------
(* The source collector's batches *)

\* the batches src1 built so far: the one being put and the ones put
BuiltBatches == source_hosts \cup Range(put_log)

\* C34: the batch a source collector enqueues holds exactly the hosts that
\* collect() returned and that pass validation, each with its source set to
\* the collector's name; an element that is not valid is dropped and the
\* valid hosts of the same collect are still enqueued.
C34_BatchIsValidHosts ==
    input.n > 0 =>
        \E batch \in BuiltBatches :
            /\ batch.n = input.n
            /\ batch.source = Collector
            /\ batch.hosts = {with_source(item.host, Collector) :
                                item \in {x \in input.items : x.kind = "host"}}

\* C37: when collect() raises or returns something that is not a list, the
\* collector enqueues nothing in that cycle: the queue, the batches and
\* hosts_source are as before, and every batch ever handled was built from a
\* list that collect() returned.
C37_FailedCollectEnqueuesNothing ==
    /\ [](/\ Len(put_log) <= built
          /\ \A i \in DOMAIN source_hosts_queue :
                source_hosts_queue[i] \in Range(put_log)
          /\ \A i \in DOMAIN handled_log : handled_log[i] \in Range(put_log))
    /\ [][collect_failures' > collect_failures =>
             UNCHANGED <<source_hosts_queue, source_hosts, put_log, handled_log,
                         hosts_source>>]_vars

\* src1 failed to collect, never built a batch, and its rows are in place
C37_Witness ==
    /\ collect_failures > 0
    /\ built = 0
    /\ source_hosts_queue = <<>>
    /\ hosts_source \in CollectorSourceRows \ {{}}

-----------------------------------------------------------------------------
(* The interfaces of a merged Host *)

\* the interfaces of type `type` that the record folded at position p has
InterfacesOfType(order, p, type) ==
    {i \in Range(input[order[p]].interfaces) : i.type = type}

\* the first record of the fold that has an interface of type `type`
FirstWithType(order, type) ==
    Min({p \in DOMAIN order : InterfacesOfType(order, p, type) # {}})

\* C35: after a sequence of merges the Host has at most one interface per
\* type, its interfaces are in ascending order of type, and the interface of
\* a type is the one of the first merged host that had one of that type: the
\* existing one is kept, the other host's is dropped.
C35_OneInterfacePerTypeSorted ==
    \A o \in output :
        LET interfaces == o.merged.interfaces IN
        /\ \A i, j \in DOMAIN interfaces :
              i < j => interfaces[i].type < interfaces[j].type
        /\ \A type \in InterfaceTypes :
              IF \E p \in DOMAIN o.order : InterfacesOfType(o.order, p, type) # {}
              THEN {i \in Range(interfaces) : i.type = type}
                     = InterfacesOfType(o.order, FirstWithType(o.order, type), type)
              ELSE {i \in Range(interfaces) : i.type = type} = {}

\* three hosts were merged, two of them with an interface of type 1, the
\* first of them listing a type 3 interface before it
C35_Witness ==
    \E o \in output :
        /\ Len(o.order) = 3
        /\ input[o.order[1]].interfaces = <<>>
        /\ input[o.order[2]].interfaces = <<Interface(3, "e1"), Interface(1, "e3")>>
        /\ input[o.order[3]].interfaces = <<Interface(1, "e2"), Interface(2, "e1")>>
        /\ o.merged.interfaces
             = <<Interface(1, "e3"), Interface(2, "e1"), Interface(3, "e1")>>

-----------------------------------------------------------------------------
(* The handler deleting rows while the merger folds *)

\* the step in which the merger folds hostname and finds no row of it
FoldsWithoutRow(hostname) ==
    /\ merger_pc = "fold"
    /\ hostname \in source_hostnames
    /\ hostname \notin source_hostnames'
    /\ ~ \E r \in hosts_source : r.hostname = hostname

\* the merger wrote a merged row for hostname in the current or last tick
MergedInTick(hostname) ==
    \E e \in merger_tick.read : e.hostname = hostname /\ e.rows # {}

TickComplete == merger_pc = "idle" /\ merger_tick.done

\* C40: when the last hosts_source row of a hostname was deleted
\* between the merger's snapshot and its fold of that hostname, the merger
\* writes nothing to hosts for it in that tick, and at the end of the next
\* tick the row of hosts is gone or was merged anew in that tick.
C40_StaleRowGoneNextTick ==
    /\ [][\A hostname \in HostNames :
             FoldsWithoutRow(hostname) => db_hosts' = db_hosts]_vars
    /\ [](TickComplete =>
            \A hostname \in merger_tick.missed :
                hostname \notin DOMAIN db_hosts \/ MergedInTick(hostname))

====
